---- MODULE Spec2Model ----
(***************************************************************************)
(* ACBP tester / SQL emitter (src/acbp/acbp_tester.py): one invocation of  *)
(* main() on a JSON model document, with the helper functions it calls     *)
(* translated as operators; and the synthetic data generator               *)
(* (src/make_data.py, src/acbp/make_data.py): two calls of generate.       *)
(***************************************************************************)
EXTENDS Integers, Sequences, FiniteSets, TLC

\* ---------------------------------------------------------------- bounds
\* Largest number of declared flags (B) of a model document.
MaxFlags == 3
\* Largest number of constraints of a document of the general family.
MaxCons == 2
\* Largest number of IMPLIES/EQUIV constraints of a document of the
\* reduction family (implication chains and cycles).
MaxChain == 3

\* model.get("enumeration_limit_bits", 22)
DefaultLimitBits == 22

\* ------------------------------------------------------------ JSON values
\* Flag names in declaration order; a document declares a prefix of them.
FlagNames == <<"a", "b", "c", "d", "e">>

Range(s) == {s[i] : i \in DOMAIN s}

Min2(x, y) == IF x <= y THEN x ELSE y
Max2(x, y) == IF x >= y THEN x ELSE y

\* A constraint object of the document. Keys a constraint type does not
\* read are left at "" / << >>.
Con(t, a, b, fl, iff, when, cond) ==
    [type |-> t, a |-> a, b |-> b, flags |-> fl, if_flag |-> iff,
     when |-> when, condition |-> cond]

Implies(a, b) == Con("IMPLIES", a, b, << >>, "", << >>, "")
Equiv(a, b)   == Con("EQUIV", a, b, << >>, "", << >>, "")
Mutex(a, b)   == Con("MUTEX", a, b, << >>, "", << >>, "")
OneOf(fl)     == Con("ONEOF", "", "", fl, "", << >>, "")
ForbidWhen(f, when) == Con("FORBID_WHEN", "", "", << >>, f, when, "")
ForbidIfSql(f, cond) == Con("FORBID_IF_SQL", "", "", << >>, f, << >>, cond)

\* One entry of a `when` mapping: category -> scalar value, or -> list.
WhenEq(k, v)  == [k |-> k, islist |-> FALSE, vals |-> <<v>>]
WhenIn(k, vs) == [k |-> k, islist |-> TRUE, vals |-> vs]

\* str.upper() on the type tags that occur in the documents.
Upper(t) ==
    CASE t = "implies" -> "IMPLIES"
      [] t = "equiv"   -> "EQUIV"
      [] t = "mutex"   -> "MUTEX"
      [] t = "oneof"   -> "ONEOF"
      [] t = "forbid_when" -> "FORBID_WHEN"
      [] t = "forbid_if_sql" -> "FORBID_IF_SQL"
      [] t = "xor" -> "XOR"
      [] OTHER -> t

\* ------------------------------------------------------------ core helpers
\* {f: i for i, f in enumerate(flags)}: a later duplicate overwrites.
bitpos_map(flags) ==
    [f \in Range(flags) |->
        (CHOOSE i \in DOMAIN flags :
            flags[i] = f /\ \A j \in DOMAIN flags : flags[j] = f => j <= i) - 1]

\* (mask >> p) & 1
bit(mask, p) == (mask \div (2 ^ p)) % 2

\* An arbitrary listing of a finite set (iteration order of a Python set).
RECURSIVE SetToSeq(_)
SetToSeq(S) ==
    IF S = {} THEN << >>
    ELSE LET x == CHOOSE y \in S : TRUE IN <<x>> \o SetToSeq(S \ {x})

\* First loop of scc_equivalence: EQUIV edges into adj, IMPLIES pairs into
\* implies; adj[x] on an undeclared x raises KeyError.
RECURSIVE scc_collect(_, _, _)
scc_collect(flags, cons, st) ==
    IF cons = << >> \/ st.err THEN st
    ELSE LET c == Head(cons)
             t == Upper(c.type)
             F == Range(flags)
         IN  IF t = "EQUIV" THEN
                 IF c.a \notin F THEN [st EXCEPT !.err = TRUE]
                 ELSE IF c.b \notin F
                      THEN [st EXCEPT !.err = TRUE,
                                      !.adj[c.a] = @ \cup {c.b}]
                      ELSE scc_collect(flags, Tail(cons),
                              [st EXCEPT !.adj =
                                  [f \in F |->
                                      st.adj[f]
                                      \cup (IF f = c.a THEN {c.b} ELSE {})
                                      \cup (IF f = c.b THEN {c.a} ELSE {})]])
             ELSE IF t = "IMPLIES" THEN
                 scc_collect(flags, Tail(cons),
                     [st EXCEPT !.implies = @ \cup {<<c.a, c.b>>}])
             ELSE scc_collect(flags, Tail(cons), st)

\* scc_equivalence with an edge for every IMPLIES pair, mutual or not.
scc_mutual_oneway(flags, st) ==
    LET F == Range(flags)
        sym == st.implies \cup {<<p[2], p[1]>> : p \in st.implies}
    IN  IF st.err THEN st
        ELSE IF \E p \in sym : p[1] \notin F \/ p[2] \notin F
             THEN [st EXCEPT !.err = TRUE]
             ELSE [st EXCEPT !.adj =
                      [f \in F |->
                          st.adj[f] \cup {p[2] : p \in {q \in sym : q[1] = f}}]]

\* Second loop of scc_equivalence: an edge for every mutual IMPLIES pair.
scc_mutual(flags, st) ==
    LET F == Range(flags)
        mutual == {p \in st.implies : <<p[2], p[1]>> \in st.implies}
    IN  IF st.err THEN st
        ELSE IF \E p \in mutual : p[1] \notin F \/ p[2] \notin F
             THEN [st EXCEPT !.err = TRUE]
             ELSE [st EXCEPT !.adj =
                      [f \in F |->
                          st.adj[f] \cup {p[2] : p \in {q \in mutual : q[1] = f}}]]

\* The stack loop of scc_equivalence for one start flag.
RECURSIVE scc_dfs(_, _, _, _)
scc_dfs(adj, stack, seen, comp) ==
    IF stack = << >> THEN [seen |-> seen, comp |-> comp]
    ELSE LET n == Len(stack)
             x == stack[n]
             rest == SubSeq(stack, 1, n - 1)
         IN  IF x \in seen THEN scc_dfs(adj, rest, seen, comp)
             ELSE LET seen2 == seen \cup {x}
                  IN  scc_dfs(adj,
                              rest \o SetToSeq({y \in adj[x] : y \notin seen2}),
                              seen2, comp \cup {x})

\* The outer loop over flags: one component per flag not seen yet.
RECURSIVE scc_comps(_, _, _, _, _)
scc_comps(flags, adj, i, seen, comps) ==
    IF i > Len(flags) THEN comps
    ELSE IF flags[i] \in seen THEN scc_comps(flags, adj, i + 1, seen, comps)
    ELSE LET r == scc_dfs(adj, <<flags[i]>>, seen, {})
         IN  scc_comps(flags, adj, i + 1, r.seen, Append(comps, r.comp))

\* scc_equivalence(flags, constraints): [err, comps]
scc_equivalence(flags, cons) ==
    LET st0 == [adj |-> [f \in Range(flags) |-> {}], implies |-> {},
                err |-> FALSE]
        st  == scc_mutual(flags, scc_collect(flags, cons, st0))
    IN  IF st.err THEN [err |-> TRUE, comps |-> << >>]
        ELSE [err |-> FALSE,
              comps |-> scc_comps(flags, st.adj, 1, {}, << >>)]

\* compute_B_eff: len(scc_equivalence(...)); -1 stands for the KeyError.
compute_B_eff(flags, cons) ==
    LET r == scc_equivalence(flags, cons)
    IN  IF r.err THEN -1 ELSE Len(r.comps)

\* count_category_leaves(categories)
RECURSIVE count_category_leaves(_)
count_category_leaves(cats) ==
    IF cats = << >> THEN 1
    ELSE Max2(1, Len(Head(cats).vals)) * count_category_leaves(Tail(cats))

\* sum(bit(mask, pos[f]) for f in fset)
RECURSIVE sum_bits(_, _, _)
sum_bits(mask, pos, fset) ==
    IF fset = << >> THEN 0
    ELSE bit(mask, pos[Head(fset)]) + sum_bits(mask, pos, Tail(fset))

\* The branches of the if/elif chain of ok(mask). Each gives "T" when the
\* loop goes on to the next constraint, "F" for return False, "KeyError"
\* for pos[x] on an undeclared flag x.

\* The IMPLIES branch with the roles of a and b exchanged.
ok_implies_rev(pos, c, mask) ==
    IF c.b \notin DOMAIN pos THEN "KeyError"
    ELSE IF bit(mask, pos[c.b]) # 1 THEN "T"
    ELSE IF c.a \notin DOMAIN pos THEN "KeyError"
    ELSE IF bit(mask, pos[c.a]) = 0 THEN "F" ELSE "T"

\* if bit(mask, pos[a]) == 1 and bit(mask, pos[b]) == 0: return False
ok_implies(pos, c, mask) ==
    IF c.a \notin DOMAIN pos THEN "KeyError"
    ELSE IF bit(mask, pos[c.a]) # 1 THEN "T"
    ELSE IF c.b \notin DOMAIN pos THEN "KeyError"
    ELSE IF bit(mask, pos[c.b]) = 0 THEN "F" ELSE "T"

\* The EQUIV branch left out: the constraint restricts nothing.
ok_equiv_skip(pos, c, mask) == "T"

\* if bit(mask, pos[a]) != bit(mask, pos[b]): return False
ok_equiv(pos, c, mask) ==
    IF c.a \notin DOMAIN pos \/ c.b \notin DOMAIN pos THEN "KeyError"
    ELSE IF bit(mask, pos[c.a]) # bit(mask, pos[c.b]) THEN "F" ELSE "T"

\* The MUTEX branch with >= 1 in place of > 1.
ok_mutex_ge(pos, c, mask) ==
    IF c.a \notin DOMAIN pos \/ c.b \notin DOMAIN pos THEN "KeyError"
    ELSE IF bit(mask, pos[c.a]) + bit(mask, pos[c.b]) >= 1 THEN "F" ELSE "T"

\* if bit(mask, pos[a]) + bit(mask, pos[b]) > 1: return False
ok_mutex(pos, c, mask) ==
    IF c.a \notin DOMAIN pos \/ c.b \notin DOMAIN pos THEN "KeyError"
    ELSE IF bit(mask, pos[c.a]) + bit(mask, pos[c.b]) > 1 THEN "F" ELSE "T"

\* The ONEOF branch with cnt > 1 in place of cnt != 1.
ok_oneof_atmost(pos, c, mask) ==
    IF \E i \in DOMAIN c.flags : c.flags[i] \notin DOMAIN pos THEN "KeyError"
    ELSE IF sum_bits(mask, pos, c.flags) > 1 THEN "F" ELSE "T"

\* cnt = sum(bit(mask, pos[f]) for f in fset); if cnt != 1: return False
ok_oneof(pos, c, mask) ==
    IF \E i \in DOMAIN c.flags : c.flags[i] \notin DOMAIN pos THEN "KeyError"
    ELSE IF sum_bits(mask, pos, c.flags) # 1 THEN "F" ELSE "T"

\* The if/elif chain with FORBID_WHEN and FORBID_IF_SQL read as forbidding
\* the flag on the bit-only path.
ok_constraint_forbid(pos, c, mask) ==
    LET t == Upper(c.type)
    IN  IF t = "IMPLIES" THEN ok_implies(pos, c, mask)
        ELSE IF t = "EQUIV" THEN ok_equiv(pos, c, mask)
        ELSE IF t = "MUTEX" THEN ok_mutex(pos, c, mask)
        ELSE IF t = "ONEOF" THEN ok_oneof(pos, c, mask)
        ELSE IF t \in {"FORBID_WHEN", "FORBID_IF_SQL"}
             THEN IF c.if_flag \in DOMAIN pos /\ bit(mask, pos[c.if_flag]) = 1
                  THEN "F" ELSE "T"
        ELSE "T"

\* The if/elif chain on c["type"].upper(); FORBID_WHEN, FORBID_IF_SQL and
\* any other type fall through to the next constraint.
ok_constraint(pos, c, mask) ==
    LET t == Upper(c.type)
    IN  IF t = "IMPLIES" THEN ok_implies(pos, c, mask)
        ELSE IF t = "EQUIV" THEN ok_equiv(pos, c, mask)
        ELSE IF t = "MUTEX" THEN ok_mutex(pos, c, mask)
        ELSE IF t = "ONEOF" THEN ok_oneof(pos, c, mask)
        ELSE "T"

\* ok(mask): the constraints in order, stopping at the first that fails.
RECURSIVE ok(_, _, _)
ok(pos, cons, mask) ==
    IF cons = << >> THEN "T"
    ELSE LET r == ok_constraint(pos, Head(cons), mask)
         IN  IF r = "T" THEN ok(pos, Tail(cons), mask) ELSE r

\* model.get("enumeration_limit_bits", 22)
limit_bits(model) ==
    IF model.has_limit THEN model.enumeration_limit_bits ELSE DefaultLimitBits

\* [m for m in range(1 << B) if ok(m)], with the number of calls of ok.
RECURSIVE enum_loop(_, _, _, _, _)
enum_loop(pos, cons, m, top, acc) ==
    IF m >= top \/ acc.err THEN acc
    ELSE LET r == ok(pos, cons, m)
         IN  enum_loop(pos, cons, m + 1, top,
                 [out   |-> IF r = "T" THEN Append(acc.out, m) ELSE acc.out,
                  evals |-> acc.evals + 1,
                  err   |-> r = "KeyError"])

\* enumerate_valid_masks with range(1, 1 << B).
enumerate_valid_masks_from1(model) ==
    LET flags == model.flags
        pos   == bitpos_map(flags)
        B     == Len(flags)
    IN  IF B > limit_bits(model)
        THEN [out |-> << >>, evals |-> 0, err |-> FALSE]
        ELSE enum_loop(pos, model.constraints, 1, 2 ^ B,
                       [out |-> << >>, evals |-> 0, err |-> FALSE])

\* enumerate_valid_masks with the guard B >= limit_bits.
enumerate_valid_masks_ge(model) ==
    LET flags == model.flags
        pos   == bitpos_map(flags)
        B     == Len(flags)
    IN  IF B >= limit_bits(model)
        THEN [out |-> << >>, evals |-> 0, err |-> FALSE]
        ELSE enum_loop(pos, model.constraints, 0, 2 ^ B,
                       [out |-> << >>, evals |-> 0, err |-> FALSE])

\* enumerate_valid_masks(model): [out, evals, err]
enumerate_valid_masks(model) ==
    LET flags == model.flags
        pos   == bitpos_map(flags)
        B     == Len(flags)
    IN  IF B > limit_bits(model)
        THEN [out |-> << >>, evals |-> 0, err |-> FALSE]
        ELSE enum_loop(pos, model.constraints, 0, 2 ^ B,
                       [out |-> << >>, evals |-> 0, err |-> FALSE])

\* ------------------------------------------------------------ SQL builders
\* A predicate fragment of the generated SQL, kept as its syntax tree:
\*   IMP     ((mask >> p) & 1) = 0 OR ((mask >> q) & 1) = 1
\*   EQ      ((mask >> p) & 1) = ((mask >> q) & 1)
\*   MUTEX   ((mask >> p) & 1) + ((mask >> q) & 1) <= 1
\*   POPCNT  acbp_popcount(mask & maskbits) = 1
\*   FORBID  NOT ( (when_sql) AND (((mask >> p) & 1) = 1) )
\*   FSQL    NOT ( (condition) AND (((mask >> p) & 1) = 1) )
\*   TRUE    TRUE
\* me is the mask expression the text was built with ("mask" or "m.mask").
Frag(op, p, q, maskbits, when, cond, me) ==
    [op |-> op, p |-> p, q |-> q, maskbits |-> maskbits, when |-> when,
     cond |-> cond, me |-> me]

TrueFrag == Frag("TRUE", 0, 0, 0, << >>, "", "")

\* sum((1 << pos[f]) for f in c["flags"])
RECURSIVE sum_shift(_, _)
sum_shift(pos, fset) ==
    IF fset = << >> THEN 0
    ELSE 2 ^ pos[Head(fset)] + sum_shift(pos, Tail(fset))

\* The fragment predicate_sql_for_bit_constraints and bit_explain_unions
\* build for one constraint: [err, skip, frag].
bit_fragment(pos, c, me) ==
    LET t == Upper(c.type)
        D == DOMAIN pos
        keyerr == [err |-> TRUE, skip |-> FALSE, frag |-> TrueFrag]
        got(f) == [err |-> FALSE, skip |-> FALSE, frag |-> f]
    IN  IF t \in {"IMPLIES", "EQUIV", "MUTEX"} THEN
            IF c.a \notin D \/ c.b \notin D THEN keyerr
            ELSE got(Frag(CASE t = "IMPLIES" -> "IMP"
                            [] t = "EQUIV" -> "EQ"
                            [] OTHER -> "MUTEX",
                          pos[c.a], pos[c.b], 0, << >>, "", me))
        ELSE IF t = "ONEOF" THEN
            IF \E i \in DOMAIN c.flags : c.flags[i] \notin D THEN keyerr
            ELSE got(Frag("POPCNT", 0, 0, sum_shift(pos, c.flags),
                          << >>, "", me))
        ELSE [err |-> FALSE, skip |-> TRUE, frag |-> TrueFrag]

\* The loop of predicate_sql_for_bit_constraints: [err, preds].
RECURSIVE bit_preds_loop(_, _, _, _)
bit_preds_loop(pos, cons, me, acc) ==
    IF cons = << >> \/ acc.err THEN acc
    ELSE LET r == bit_fragment(pos, Head(cons), me)
         IN  bit_preds_loop(pos, Tail(cons), me,
                 [err |-> r.err,
                  preds |-> IF r.err \/ r.skip THEN acc.preds
                            ELSE Append(acc.preds, r.frag)])

\* predicate_sql_for_bit_constraints: the conjuncts, or TRUE when none.
predicate_sql_for_bit_constraints(flags, cons, me) ==
    LET r == bit_preds_loop(bitpos_map(flags), cons, me,
                            [err |-> FALSE, preds |-> << >>])
    IN  IF r.err THEN r
        ELSE [err |-> FALSE,
              preds |-> IF r.preds = << >> THEN <<TrueFrag>> ELSE r.preds]

\* The loop of bit_explain_unions: one (rule, ok) row per bit constraint.
RECURSIVE bit_unions_loop(_, _, _)
bit_unions_loop(pos, cons, acc) ==
    IF cons = << >> \/ acc.err THEN acc
    ELSE LET r == bit_fragment(pos, Head(cons), "mask")
         IN  bit_unions_loop(pos, Tail(cons),
                 [err |-> r.err,
                  unions |-> IF r.err \/ r.skip THEN acc.unions
                             ELSE Append(acc.unions,
                                    [rule |-> Head(cons), ok |-> r.frag])])

\* Label of the placeholder row of an explainer without rules.
TrueRule == Con("TRUE", "", "", << >>, "", << >>, "")

\* bit_explain_unions(flags, constraints)
bit_explain_unions(flags, cons) ==
    LET r == bit_unions_loop(bitpos_map(flags), cons,
                             [err |-> FALSE, unions |-> << >>])
    IN  IF r.err THEN r
        ELSE [err |-> FALSE,
              unions |-> IF r.unions = << >>
                         THEN <<[rule |-> TrueRule, ok |-> TrueFrag]>>
                         ELSE r.unions]

\* A condition on one column: (col = 'v') or (col IN ('v1', ...)).
SqlCond(col, op, vals) == [col |-> col, op |-> op, vals |-> vals]

\* _eq_or_in without the isinstance test: always (col = 'str(spec)').
eq_or_in_scalar(col, spec) ==
    IF spec.islist THEN SqlCond(col, "=", <<"str(list)">>)
    ELSE SqlCond(col, "=", spec.vals)

\* _eq_or_in(col, spec)
eq_or_in(col, spec) ==
    IF spec.islist THEN SqlCond(col, "IN", spec.vals)
    ELSE SqlCond(col, "=", spec.vals)

\* conds = [_eq_or_in(k, v) for k, v in when.items()]
when_conds(when) == [i \in DOMAIN when |-> eq_or_in(when[i].k, when[i])]

\* The loop of cat_rule_preds: [err, preds, unions].
RECURSIVE cat_rule_loop(_, _, _, _)
cat_rule_loop(pos, cons, me, acc) ==
    IF cons = << >> \/ acc.err THEN acc
    ELSE LET c == Head(cons)
             t == Upper(c.type)
         IN  IF t \in {"FORBID_WHEN", "FORBID_IF_SQL"} THEN
                 IF c.if_flag \notin DOMAIN pos
                 THEN [acc EXCEPT !.err = TRUE]
                 ELSE LET f == IF t = "FORBID_WHEN"
                               THEN Frag("FORBID", pos[c.if_flag], 0, 0,
                                         when_conds(c.when), "", me)
                               ELSE Frag("FSQL", pos[c.if_flag], 0, 0,
                                         << >>, c.condition, me)
                      IN  cat_rule_loop(pos, Tail(cons), me,
                              [err |-> FALSE,
                               preds |-> Append(acc.preds, f),
                               unions |-> Append(acc.unions,
                                            [rule |-> c, ok |-> f])])
             ELSE cat_rule_loop(pos, Tail(cons), me, acc)

\* cat_rule_preds(flags, categories, constraints, mask_expr)
cat_rule_preds(flags, cats, cons, me) ==
    cat_rule_loop(bitpos_map(flags), cons, me,
                  [err |-> FALSE, preds |-> << >>, unions |-> << >>])

\* The batch of definitions emit_postgres_sql returns, before it is built.
NoArtifact ==
    [name |-> "", max_mask |-> 0, cats |-> << >>, join_cats |-> FALSE,
     full_pred_m |-> << >>, bit_pred_unq |-> << >>, bit_unions |-> << >>,
     have_cat_rules |-> FALSE, predicate_unq |-> << >>,
     cat_unions |-> << >>, cat_sig |-> << >>, defs |-> << >>,
     header |-> << >>]

\* One statement of the batch: CREATE [OR REPLACE] kind "prefix<name>suffix"
\* with the text of the source variable `text`.
Def(kind, prefix, name, suffix, replace, text) ==
    [kind |-> kind, name |-> <<prefix, name, suffix>>, replace |-> replace,
     text |-> text]

\* The batch with plain CREATE for the views.
artifact_defs_create(name, have_cat_rules) ==
    <<Def("FUNCTION", "acbp_popcount", "", "", TRUE, "helpers"),
      Def("VIEW", "", name, "_categories", FALSE, "cats_view"),
      Def("VIEW", "", name, "_decision_space", FALSE, "decision_space"),
      Def("VIEW", "", name, "_valid_masks", FALSE, "valid_masks_view"),
      Def("VIEW", "", name, "_explain", FALSE, "explain_view"),
      Def("FUNCTION", "acbp_is_valid__", name, "", TRUE, "validator_fn"),
      Def("FUNCTION", "acbp_explain_rules__", name, "", TRUE,
          "explain_rules_fn")>>
    \o (IF have_cat_rules
        THEN <<Def("FUNCTION", "acbp_is_valid__", name, "_cats", TRUE,
                   "cat_validator"),
               Def("FUNCTION", "acbp_explain__", name, "", TRUE,
                   "cat_explainer")>>
        ELSE << >>)

\* The statements of the returned text, in order: helpers, cats_view,
\* decision_space, valid_masks_view, explain_view, validator_fn,
\* explain_rules_fn, and cat_validator, cat_explainer when have_cat_rules.
artifact_defs(name, have_cat_rules) ==
    <<Def("FUNCTION", "acbp_popcount", "", "", TRUE, "helpers"),
      Def("VIEW", "", name, "_categories", TRUE, "cats_view"),
      Def("VIEW", "", name, "_decision_space", TRUE, "decision_space"),
      Def("VIEW", "", name, "_valid_masks", TRUE, "valid_masks_view"),
      Def("VIEW", "", name, "_explain", TRUE, "explain_view"),
      Def("FUNCTION", "acbp_is_valid__", name, "", TRUE, "validator_fn"),
      Def("FUNCTION", "acbp_explain_rules__", name, "", TRUE,
          "explain_rules_fn")>>
    \o (IF have_cat_rules
        THEN <<Def("FUNCTION", "acbp_is_valid__", name, "_cats", TRUE,
                   "cat_validator"),
               Def("FUNCTION", "acbp_explain__", name, "", TRUE,
                   "cat_explainer")>>
        ELSE << >>)

\* The header with the flags listed last to first.
artifact_header_rev(flags) ==
    [i \in DOMAIN flags |->
        <<flags[Len(flags) + 1 - i],
          bitpos_map(flags)[flags[Len(flags) + 1 - i]]>>]

\* header: one comment line "-- <flag> : bit <pos[flag]>" per flag.
artifact_header(flags) ==
    [i \in DOMAIN flags |-> <<flags[i], bitpos_map(flags)[flags[i]]>>]

\* emit_postgres_sql with the decision space filtered by the bit rules only.
emit_postgres_sql_bitonly(model) ==
    LET name  == model.name
        flags == model.flags
        cats  == model.categories
        cons  == model.constraints
        B     == Len(flags)
        bit_unq == predicate_sql_for_bit_constraints(flags, cons, "mask")
        cat_unq == cat_rule_preds(flags, cats, cons, "mask")
        bit_m   == predicate_sql_for_bit_constraints(flags, cons, "m.mask")
        cat_m   == cat_rule_preds(flags, cats, cons, "m.mask")
        bit_un  == bit_explain_unions(flags, cons)
        have    == Len(cat_unq.preds) > 0
    IN  IF bit_unq.err \/ cat_unq.err \/ bit_m.err \/ cat_m.err \/ bit_un.err
        THEN [err |-> TRUE, art |-> NoArtifact]
        ELSE [err |-> FALSE,
              art |->
                [name |-> name,
                 max_mask |-> 2 ^ B - 1,
                 cats |-> cats,
                 join_cats |-> cats # << >>,
                 full_pred_m |-> bit_m.preds,
                 bit_pred_unq |-> bit_unq.preds,
                 bit_unions |-> bit_un.unions,
                 have_cat_rules |-> have,
                 predicate_unq |-> IF have THEN bit_unq.preds \o cat_unq.preds
                                   ELSE << >>,
                 cat_unions |-> IF have THEN cat_unq.unions ELSE << >>,
                 cat_sig |-> [i \in DOMAIN cats |-> cats[i].name],
                 defs |-> artifact_defs(name, have),
                 header |-> artifact_header(flags)]]

\* emit_postgres_sql(model): [err, art]
emit_postgres_sql(model) ==
    LET name  == model.name
        flags == model.flags
        cats  == model.categories
        cons  == model.constraints
        B     == Len(flags)
        bit_unq == predicate_sql_for_bit_constraints(flags, cons, "mask")
        cat_unq == cat_rule_preds(flags, cats, cons, "mask")
        bit_m   == predicate_sql_for_bit_constraints(flags, cons, "m.mask")
        cat_m   == cat_rule_preds(flags, cats, cons, "m.mask")
        bit_un  == bit_explain_unions(flags, cons)
        have    == Len(cat_unq.preds) > 0
    IN  IF bit_unq.err \/ cat_unq.err \/ bit_m.err \/ cat_m.err \/ bit_un.err
        THEN [err |-> TRUE, art |-> NoArtifact]
        ELSE [err |-> FALSE,
              art |->
                [name |-> name,
                 max_mask |-> 2 ^ B - 1,
                 cats |-> cats,
                 join_cats |-> cats # << >>,
                 full_pred_m |-> bit_m.preds \o cat_m.preds,
                 bit_pred_unq |-> bit_unq.preds,
                 bit_unions |-> bit_un.unions,
                 have_cat_rules |-> have,
                 predicate_unq |-> IF have THEN bit_unq.preds \o cat_unq.preds
                                   ELSE << >>,
                 cat_unions |-> IF have THEN cat_unq.unions ELSE << >>,
                 cat_sig |-> [i \in DOMAIN cats |-> cats[i].name],
                 defs |-> artifact_defs(name, have),
                 header |-> artifact_header(flags)]]

\* ------------------------------------------------- the generated SQL, run
\* x & y on non-negative integers.
RECURSIVE BitAnd(_, _)
BitAnd(x, y) ==
    IF x = 0 \/ y = 0 THEN 0
    ELSE (x % 2) * (y % 2) + 2 * BitAnd(x \div 2, y \div 2)

\* acbp_popcount(x): the number of '1' characters of x::bit(64).
RECURSIVE acbp_popcount(_)
acbp_popcount(x) ==
    IF x = 0 THEN 0 ELSE (x % 2) + acbp_popcount(x \div 2)

\* _eq_or_in(col, spec) evaluated on a row: (col = 'v') / (col IN (...)).
\* cols maps the columns (or function arguments) in scope to their values;
\* a name that is not in scope is an error of the statement.
sql_eq_or_in(e, cols) ==
    IF e.col \notin DOMAIN cols THEN "ERR"
    ELSE IF e.op = "=" THEN (IF cols[e.col] = e.vals[1] THEN "T" ELSE "F")
    ELSE IF cols[e.col] \in Range(e.vals) THEN "T" ELSE "F"

\* " AND ".join(conds) if conds else "TRUE"
when_sql(when, cols) ==
    IF \E i \in DOMAIN when : sql_eq_or_in(when[i], cols) = "ERR" THEN "ERR"
    ELSE IF \A i \in DOMAIN when : sql_eq_or_in(when[i], cols) = "T" THEN "T"
    ELSE "F"

\* The FORBID_IF_SQL condition texts of the documents, as the engine
\* evaluates them on a row.
sql_condition(cond, cols) ==
    CASE cond = "site <> 'Main'" ->
            IF "site" \notin DOMAIN cols THEN "ERR"
            ELSE IF cols["site"] # "Main" THEN "T" ELSE "F"
      [] cond = "TRUE" -> "T"
      [] OTHER -> "ERR"

\* One fragment evaluated on (mask, cols): "T", "F" or "ERR".
sql_fragment(f, mask, cols) ==
    LET tf(b) == IF b THEN "T" ELSE "F"
    IN  CASE f.op = "IMP" -> tf(bit(mask, f.p) = 0 \/ bit(mask, f.q) = 1)
          [] f.op = "EQ" -> tf(bit(mask, f.p) = bit(mask, f.q))
          [] f.op = "MUTEX" -> tf(bit(mask, f.p) + bit(mask, f.q) <= 1)
          [] f.op = "POPCNT" -> tf(acbp_popcount(BitAnd(mask, f.maskbits)) = 1)
          [] f.op = "FORBID" ->
                LET w == when_sql(f.when, cols)
                IN  IF w = "ERR" THEN "ERR"
                    ELSE tf(~(w = "T" /\ bit(mask, f.p) = 1))
          [] f.op = "FSQL" ->
                LET w == sql_condition(f.cond, cols)
                IN  IF w = "ERR" THEN "ERR"
                    ELSE tf(~(w = "T" /\ bit(mask, f.p) = 1))
          [] OTHER -> "T"

\* A conjunction of fragments ("f1 AND f2 AND ...") on (mask, cols).
sql_conj(preds, mask, cols) ==
    IF \E i \in DOMAIN preds : sql_fragment(preds[i], mask, cols) = "ERR"
    THEN "ERR"
    ELSE IF \A i \in DOMAIN preds : sql_fragment(preds[i], mask, cols) = "T"
    THEN "T" ELSE "F"

\* generate_categories_cte: the rows of cats, one column per category
\* (the cross join of the unnest-ed value lists).
cats_rows(cats) ==
    LET names == {cats[i].name : i \in DOMAIN cats}
        vals(n) == Range(cats[CHOOSE i \in DOMAIN cats : cats[i].name = n].vals)
    IN  {r \in [names -> UNION {Range(cats[i].vals) : i \in DOMAIN cats}] :
            \A n \in names : r[n] \in vals(n)}

\* generate_categories_cte emits unnest(ARRAY[...]) per category; for a
\* category without values the text is unnest(ARRAY[]), an array literal
\* without element type, which the engine rejects.
cats_cte_typed(cats) == \A i \in DOMAIN cats : cats[i].vals # << >>

\* "<name>_decision_space": masks CROSS JOIN cats WHERE full_pred_m.
\* [err, rows]; a row is [mask, cols].
decision_space(art) ==
    LET rowsc == IF art.join_cats THEN cats_rows(art.cats) ELSE {<< >>}
        all   == {[mask |-> m, cols |-> r] : m \in 0..art.max_mask, r \in rowsc}
        colsAny == IF art.join_cats
                   THEN [n \in {art.cats[i].name : i \in DOMAIN art.cats} |-> ""]
                   ELSE << >>
    IN  IF sql_conj(art.full_pred_m, 0, colsAny) = "ERR"
           \/ ~cats_cte_typed(art.cats)
        THEN [err |-> TRUE, rows |-> {}]
        ELSE [err |-> FALSE,
              rows |-> {x \in all :
                          sql_conj(art.full_pred_m, x.mask, x.cols) = "T"}]

\* "<name>_valid_masks" read from the masks CTE, before the WHERE clause.
valid_masks_view_all(art) ==
    LET ds == decision_space(art)
    IN  [err |-> ds.err, masks |-> 0..art.max_mask]

\* "<name>_valid_masks": SELECT DISTINCT mask FROM "<name>_decision_space".
valid_masks_view(art) ==
    LET ds == decision_space(art)
    IN  [err |-> ds.err, masks |-> {x.mask : x \in ds.rows}]

\* "acbp_is_valid__<name>"(mask)
acbp_is_valid(art, mask) == sql_conj(art.bit_pred_unq, mask, << >>)

\* "acbp_is_valid__<name>_cats"(mask, <one text argument per category>);
\* args maps the names of cat_sig to the values passed.
acbp_is_valid_cats(art, mask, args) == sql_conj(art.predicate_unq, mask, args)

\* "acbp_explain_rules__<name>"(mask): the rows of bit_unions_sql, in the
\* order of the text.
acbp_explain_rules(art, mask) ==
    [i \in DOMAIN art.bit_unions |->
        [rule |-> art.bit_unions[i].rule,
         ok   |-> sql_fragment(art.bit_unions[i].ok, mask, << >>)]]

\* "acbp_explain__<name>" as SELECT * FROM bit_rules alone.
acbp_explain_bit_rules(art, mask, args) == acbp_explain_rules(art, mask)

\* "acbp_explain__<name>"(mask, <one text argument per category>):
\* SELECT * FROM bit_rules UNION ALL SELECT * FROM cat_rules.
acbp_explain(art, mask, args) ==
    acbp_explain_rules(art, mask)
    \o [i \in DOMAIN art.cat_unions |->
           [rule |-> art.cat_unions[i].rule,
            ok   |-> sql_fragment(art.cat_unions[i].ok, mask, args)]]

\* A catalog of named definitions: [err, objs], objs a set of
\* [kind, name, text]. CREATE OR REPLACE puts the definition in place of
\* any other of the same kind and name; CREATE fails when there is one.
apply_statement(cat, d) ==
    LET same(o) == o.kind = d.kind /\ o.name = d.name
        new == [kind |-> d.kind, name |-> d.name, text |-> d.text]
    IN  IF cat.err THEN cat
        ELSE IF d.replace
        THEN [err |-> FALSE, objs |-> {o \in cat.objs : ~same(o)} \cup {new}]
        ELSE IF \E o \in cat.objs : same(o) THEN [cat EXCEPT !.err = TRUE]
        ELSE [err |-> FALSE, objs |-> cat.objs \cup {new}]

\* The statements of an artifact applied in order, from the i-th on.
RECURSIVE apply_from(_, _, _)
apply_from(cat, defs, i) ==
    IF i > Len(defs) THEN cat
    ELSE apply_from(apply_statement(cat, defs[i]), defs, i + 1)

\* The whole artifact applied to a catalog.
apply_artifact(cat, art) == apply_from(cat, art.defs, 1)

\* -------------------------------------------------------- sanity estimates
\* Fractions n/d (d > 0) stand for the floats of estimate_sanity.
Frac(n, d) == [n |-> n, d |-> d]
FracMul(x, y) == Frac(x.n * y.n, x.d * y.d)
FracLe(x, y) == x.n * y.d <= y.n * x.d
FracMin(x, y) == IF FracLe(x, y) THEN x ELSE y
FracMax(x, y) == IF FracLe(x, y) THEN y ELSE x
\* 1 + x in place of 1 - x.
FracOnePlus(x) == Frac(x.d + x.n, x.d)
FracOneMinus(x) == Frac(x.d - x.n, x.d)

\* int(round(k * x)) for k >= 0, x >= 0: round half to even.
RoundTimes(k, x) ==
    LET num == k * x.n
        q == num \div x.d
        r == num % x.d
    IN  IF 2 * r < x.d THEN q
        ELSE IF 2 * r > x.d THEN q + 1
        ELSE IF q % 2 = 0 THEN q ELSE q + 1

\* cats.get(col, values) that always gives the default.
cats_get_default(cats, col, values) == values

\* cats.get(col, values): the declared values of col, else values itself.
cats_get(cats, col, values) ==
    IF \E i \in DOMAIN cats : cats[i].name = col
    THEN cats[CHOOSE i \in DOMAIN cats : cats[i].name = col].vals
    ELSE values

\* sum(((m >> pos[f]) & 1) for m in valid_masks)
RECURSIVE count_set(_, _)
count_set(valid, p) ==
    IF valid = << >> THEN 0
    ELSE bit(Head(valid), p) + count_set(Tail(valid), p)

\* prev[f]
prevalence(flags, valid, f) ==
    IF Len(valid) > 0
    THEN Frac(count_set(valid, bitpos_map(flags)[f]), Len(valid))
    ELSE Frac(0, 1)

\* frac_cats of one FORBID_WHEN rule: the loop over when.items().
RECURSIVE frac_cats(_, _)
frac_cats(cats, when) ==
    IF when = << >> THEN Frac(1, 1)
    ELSE LET e == Head(when)
             denom == Max2(1, Len(cats_get(cats, e.k, e.vals)))
         IN  FracMul(FracMin(Frac(1, 1), Frac(Len(e.vals), denom)),
                     frac_cats(cats, Tail(when)))

\* forbid_fracs: one entry per FORBID_WHEN constraint, in order.
RECURSIVE forbid_fracs(_, _, _, _)
forbid_fracs(flags, cats, valid, cons) ==
    IF cons = << >> THEN << >>
    ELSE LET c == Head(cons)
             rest == forbid_fracs(flags, cats, valid, Tail(cons))
         IN  IF Upper(c.type) # "FORBID_WHEN" THEN rest
             ELSE <<FracMul(IF c.if_flag \in Range(flags)
                            THEN prevalence(flags, valid, c.if_flag)
                            ELSE Frac(0, 1),
                            frac_cats(cats, c.when))>> \o rest

\* keep_prob: the product of 1 - clamp(f)
RECURSIVE keep_prob(_)
keep_prob(fracs) ==
    IF fracs = << >> THEN Frac(1, 1)
    ELSE FracMul(FracOneMinus(FracMax(Frac(0, 1),
                                      FracMin(Frac(1, 1), Head(fracs)))),
                 keep_prob(Tail(fracs)))

count_type(cons, t) ==
    Cardinality({i \in DOMAIN cons : Upper(cons[i].type) = t})

NoEst ==
    [done |-> FALSE, theoretical_max |-> 0, est_remaining |-> 0,
     est_pruned |-> 0, prev |-> << >>, fisql_note |-> 0, fw_note |-> FALSE]

\* estimate_sanity with every FORBID_IF_SQL rule estimated as a FORBID_WHEN
\* rule without conditions.
estimate_sanity_all(model, valid) ==
    LET flags == model.flags
        cats  == model.categories
        cons  == model.constraints
        consW == [i \in DOMAIN cons |->
                     IF Upper(cons[i].type) = "FORBID_IF_SQL"
                     THEN ForbidWhen(cons[i].if_flag, << >>) ELSE cons[i]]
        v     == Max2(0, Len(valid))
        n_eff == count_category_leaves(cats)
        tmax  == v * n_eff
        kp    == keep_prob(forbid_fracs(flags, cats, valid, consW))
        rem   == RoundTimes(tmax, kp)
    IN  [done |-> TRUE,
         theoretical_max |-> tmax,
         est_remaining |-> rem,
         est_pruned |-> tmax - rem,
         prev |-> [i \in DOMAIN flags |-> prevalence(flags, valid, flags[i])],
         fisql_note |-> count_type(cons, "FORBID_IF_SQL"),
         fw_note |-> \E i \in DOMAIN cons :
                        Upper(cons[i].type) = "FORBID_WHEN"
                        /\ cons[i].when # << >>]

\* estimate_sanity(model, valid_masks): the numbers behind the strings.
estimate_sanity(model, valid) ==
    LET flags == model.flags
        cats  == model.categories
        cons  == model.constraints
        v     == Max2(0, Len(valid))
        n_eff == count_category_leaves(cats)
        tmax  == v * n_eff
        kp    == keep_prob(forbid_fracs(flags, cats, valid, cons))
        rem   == RoundTimes(tmax, kp)
    IN  [done |-> TRUE,
         theoretical_max |-> tmax,
         est_remaining |-> rem,
         est_pruned |-> tmax - rem,
         prev |-> [i \in DOMAIN flags |-> prevalence(flags, valid, flags[i])],
         fisql_note |-> count_type(cons, "FORBID_IF_SQL"),
         fw_note |-> \E i \in DOMAIN cons :
                        Upper(cons[i].type) = "FORBID_WHEN"
                        /\ cons[i].when # << >>]

\* ------------------------------------------------------- model documents
\* A flag name the document with B flags does not declare.
Undeclared(B) == FlagNames[B + 1]

\* The flags with index in S, in declaration order.
RECURSIVE AscList(_, _)
AscList(S, i) ==
    IF i > Len(FlagNames) THEN << >>
    ELSE (IF i \in S THEN <<FlagNames[i]>> ELSE << >>) \o AscList(S, i + 1)

\* All sequences over U of length at most n.
SeqsUpTo(U, n) == UNION {[1..k -> U] : k \in 0..n}

CatsNone == << >>
CatsSite == <<[name |-> "site", vals |-> <<"Main", "Annex">>]>>
\* A category that declares no value.
CatsEmpty == <<[name |-> "site", vals |-> << >>]>>

\* The flags the constraints of the enumeration family name: the first
\* two and the last declared.
Core(B) == {1, Min2(2, B), B}

\* Bit-only constraints over the flags of Core(B).
BitU(B) ==
    {Implies(FlagNames[p[1]], FlagNames[p[2]]) :
            p \in {q \in Core(B) \X Core(B) : q[1] # q[2]}}
    \cup {Equiv(FlagNames[p[1]], FlagNames[p[2]]) :
            p \in {q \in Core(B) \X Core(B) : q[1] < q[2]}}
    \cup {Mutex(FlagNames[p[1]], FlagNames[p[2]]) :
            p \in {q \in Core(B) \X Core(B) : q[1] < q[2]}}
    \cup {OneOf(AscList(S, 1)) : S \in SUBSET Core(B)}
    \cup {OneOf(<<"a", "a">>), Con("mutex", "a", FlagNames[B], << >>, "", << >>, "")}

\* Constraints that name an undeclared flag, and one of an unknown type.
ExtraU(B) ==
    {Implies("a", Undeclared(B)), Equiv("a", Undeclared(B)),
     Con("XOR", "a", FlagNames[B], << >>, "", << >>, "")}

\* `when` mappings over the declared category and its declared values.
Whens ==
    {<< >>, <<WhenEq("site", "Annex")>>, <<WhenIn("site", <<"Main", "Annex">>)>>}

\* `when` mappings that name an undeclared value or an undeclared category.
BadWhens == {<<WhenEq("site", "Nowhere")>>, <<WhenEq("ward", "ICU")>>}

\* Category-aware constraints.
CatU(B) ==
    {ForbidWhen(f, w) : f \in {"a", FlagNames[B]}, w \in Whens}
    \cup {ForbidIfSql("a", "site <> 'Main'")}

\* Category-aware constraints with an undeclared flag, category or value.
BadCatU(B) ==
    {ForbidWhen("a", w) : w \in BadWhens}
    \cup {ForbidWhen(Undeclared(B), <<WhenEq("site", "Annex")>>),
          ForbidIfSql(Undeclared(B), "TRUE")}

\* IMPLIES/EQUIV constraints between flags that are neighbours on the ring
\* 1, 2, ..., B, 1 of the declared flags, for chains and cycles.
ChainU(B) ==
    LET ring == {q \in (1..B) \X (1..B) :
                    /\ q[1] # q[2]
                    /\ q[2] = (q[1] % B) + 1 \/ q[1] = (q[2] % B) + 1}
    IN  {Implies(FlagNames[p[1]], FlagNames[p[2]]) : p \in ring}
        \cup {Equiv(FlagNames[p[1]], FlagNames[p[2]]) :
                p \in {q \in ring : q[1] < q[2]}}

\* The subsets of U of at most n elements.
RECURSIVE SubsetsUpTo(_, _)
SubsetsUpTo(U, n) ==
    IF n = 0 THEN {{}}
    ELSE LET P == SubsetsUpTo(U, n - 1)
         IN  P \cup UNION {{S \cup {x} : x \in U} : S \in P}

\* One listing, without repetition, of every subset of U of at most n
\* elements.
ChainLists(U, n) == {SetToSeq(S) : S \in SubsetsUpTo(U, n)}

Doc(B, cats, cons, has_limit, limit) ==
    [name |-> "clinic", flags |-> SubSeq(FlagNames, 1, B), categories |-> cats,
     constraints |-> cons, has_limit |-> has_limit,
     enumeration_limit_bits |-> limit]

\* A cell of summary.csv, by what _parse_intlike can tell of its text: it
\* is empty after strip, has a "." or not, and reads as an integer ("3"), as
\* a finite float ("2.7", val its integer part), as an infinite float
\* ("1.0e999", "1e999") or as no number ("abc").
Cell(dot, num, val) == [dot |-> dot, num |-> num, val |-> val]
CellEmpty == Cell(FALSE, "empty", 0)
CellInt(n) == Cell(FALSE, "int", n)
CellOverflow == Cell(TRUE, "inf", 0)

\* A parsed value: None, an integer, or the exception that int() raises on
\* an infinite float (OverflowError is not caught by `except ValueError`).
Parsed(err, none, val) == [err |-> err, none |-> none, val |-> val]
ParsedNone == Parsed(FALSE, TRUE, 0)

\* _parse_intlike(s): "" gives None; with a "." int(float(s)), without
\* int(s); ValueError gives None.
parse_intlike(s) ==
    IF s.num = "empty" THEN ParsedNone
    ELSE IF s.dot
         THEN IF s.num \in {"int", "finite"} THEN Parsed(FALSE, FALSE, s.val)
              ELSE IF s.num = "inf" THEN Parsed(TRUE, FALSE, 0)
              ELSE ParsedNone
         ELSE IF s.num = "int" THEN Parsed(FALSE, FALSE, s.val)
              ELSE ParsedNone

\* What papers/results holds for the model: no summary.csv, or the
\* decision_rows cell of the first row of the latest one.
NoSummary == [found |-> FALSE, decision_rows |-> CellEmpty]
Summaries ==
    {NoSummary, [found |-> TRUE, decision_rows |-> CellEmpty],
     [found |-> TRUE, decision_rows |-> CellInt(3)],
     [found |-> TRUE, decision_rows |-> CellOverflow]}

\* latest_summary_metrics(name): None when there is no summary.csv, else
\* the parsed row; an exception of _parse_intlike passes through.
latest_summary_metrics(file) ==
    IF ~file.found THEN [err |-> FALSE, sm |-> FALSE, decision_rows |-> ParsedNone]
    ELSE LET d == parse_intlike(file.decision_rows)
         IN  [err |-> d.err, sm |-> ~d.err, decision_rows |-> d]

\* The file at args.out_sql before the run: absent, or an earlier artifact.
OldArtifact == [NoArtifact EXCEPT !.name = "earlier"]

\* What a run reads besides the document: the historical record and the
\* file already at the output path.
Env(summary, existing) == [summary |-> summary, existing |-> existing]
NoEnv == Env(NoSummary, NoArtifact)

Run(doc, enum, out) ==
    [doc |-> doc, args |-> [enumerate |-> enum, out_sql |-> out],
     env |-> NoEnv]

\* The runs of R under every environment that the run can read: the
\* historical record is read with --enumerate (varied here on the documents
\* without an enumeration limit), the output path with -o.
WithEnv(R) ==
    UNION {{[r EXCEPT !.env = Env(h, x)] :
               h \in (IF r.args.enumerate /\ ~r.doc.has_limit
                      THEN Summaries ELSE {NoSummary}),
               x \in (IF r.args.out_sql THEN {NoArtifact, OldArtifact}
                                        ELSE {NoArtifact})} :
           r \in R}

\* Enumeration family: sets of bit-only constraints, enumerated.
FamEnum ==
    UNION {{Run(Doc(B, CatsNone, cons, FALSE, 0), TRUE, FALSE) :
               cons \in ChainLists(BitU(B), MaxCons)} :
           B \in 1..MaxFlags}

\* Order family: a constraint that names an undeclared flag or has an
\* unknown type, before and after a ONEOF constraint, enumerated.
FamOrder ==
    UNION {{Run(Doc(B, CatsNone, cons, FALSE, 0), TRUE, out) :
               cons \in UNION {{<<x, e>>, <<e, x>>} :
                                 x \in {OneOf(<< >>), OneOf(<<"a">>)},
                                 e \in ExtraU(B)},
               out \in BOOLEAN} :
           B \in 1..MaxFlags}

\* Reduction family: sets of IMPLIES/EQUIV constraints, enumerated.
FamChain ==
    UNION {{Run(Doc(B, CatsNone, cons, FALSE, 0), TRUE, FALSE) :
               cons \in ChainLists(ChainU(B), MaxChain)} :
           B \in 1..MaxFlags}

\* Emission family: sets of bit-only and category-aware constraints mixed.
FamSql ==
    UNION {{Run(Doc(B, cats, cons, FALSE, 0), FALSE, TRUE) :
               cats \in {CatsNone, CatsSite},
               cons \in ChainLists(CatU(B) \cup {Mutex("a", FlagNames[B]),
                                                 OneOf(SubSeq(FlagNames, 1, B))},
                                   MaxCons)} :
           B \in 1..MaxFlags}

\* Invocation family: every combination of the command line and of the
\* enumeration limit (absent, B - 1, B), on documents of one constraint.
FamPipe ==
    UNION {{Run(Doc(B, cats, cons, lim[1], lim[2]), enum, out) :
               cats \in {CatsNone, CatsSite},
               cons \in SeqsUpTo(ExtraU(B) \cup CatU(B) \cup BadCatU(B)
                                 \cup {OneOf(<<"a">>), OneOf(<< >>)}, 1),
               lim \in {<<FALSE, 0>>, <<TRUE, B - 1>>, <<TRUE, B>>},
               enum \in BOOLEAN, out \in BOOLEAN} :
           B \in 1..MaxFlags}

\* Estimation family: sets of category-aware constraints, enumerated, over
\* no category, a category of two values and a category of none.
EstU(B) ==
    {ForbidWhen("a", w) : w \in Whens}
    \cup {ForbidWhen(FlagNames[B], <<WhenEq("site", "Annex")>>),
          ForbidIfSql("a", "site <> 'Main'"), ForbidIfSql(FlagNames[B], "TRUE"),
          Implies("a", FlagNames[B])}

FamEst ==
    UNION {{Run(Doc(B, cats, cons, FALSE, 0), TRUE, FALSE) :
               cats \in {CatsNone, CatsSite, CatsEmpty},
               cons \in ChainLists(EstU(B), MaxCons)} :
           B \in 1..MaxFlags}

\* The runs, family by family.
Runs(i) ==
    CASE i = 1 -> FamEnum
      [] i = 2 -> FamOrder
      [] i = 3 -> FamChain
      [] i = 4 -> FamSql
      [] i = 5 -> FamEst
      [] OTHER -> WithEnv(FamPipe)

\* ------------------------------------------------------------ main()
VARIABLES
    doc,        \* the JSON document at args.model_json
    args,       \* the parsed command line: enumerate, out_sql given
    pc,         \* where main() stands
    model,      \* json.load(f)
    B_eff,      \* compute_B_eff(flags, cons)
    n_eff,      \* count_category_leaves(cats)
    valid,      \* the list `valid`
    evals,      \* calls of ok(mask) made by enumerate_valid_masks
    est,        \* the result of estimate_sanity
    sql,        \* the text returned by emit_postgres_sql
    out_file,   \* the file at args.out_sql
    stdout,     \* what was printed, in order
    summary,    \* the latest summary.csv of the model under papers/results
    workers,    \* the sub-ranges of range(1 << B) and what each has evaluated
    call,       \* make_data: the file and the arguments of generate
    stream,     \* make_data: what random.Random(seed) has yielded so far
    calls,      \* make_data: the two calls of generate with these arguments
    devs        \* make_data: the draws so far that were not 0

\* The state of the data generator.
genvars == <<call, stream, calls, devs>>

vars == <<doc, args, pc, model, B_eff, n_eff, valid, evals, est, sql,
          out_file, stdout, summary, workers, genvars>>

NoModel == Doc(0, << >>, << >>, FALSE, 0)

Init ==
    /\ \E i \in 1..6 : \E r \in Runs(i) :
          /\ doc = r.doc
          /\ args = r.args
          /\ summary = r.env.summary
          /\ out_file = [written |-> FALSE, content |-> r.env.existing]
    /\ pc = "start"
    /\ model = NoModel
    /\ B_eff = 0
    /\ n_eff = 0
    /\ valid = << >>
    /\ evals = 0
    /\ est = NoEst
    /\ sql = NoArtifact
    /\ stdout = << >>
    /\ workers = << >>
    /\ call = [file |-> "", model |-> "", n_rows |-> 0, seed |-> 0]
    /\ stream = << >>
    /\ calls = << >>
    /\ devs = 0

\* with open(args.model_json) as f: model = json.load(f)
Load ==
    /\ pc = "start"
    /\ model' = doc
    /\ pc' = "loaded"
    /\ UNCHANGED <<doc, args, B_eff, n_eff, valid, evals, est, sql, out_file,
                   stdout, summary,
                   workers, genvars>>

\* B_eff, n_eff and the header of the report (a KeyError of
\* scc_equivalence ends the run).
Reduce ==
    /\ pc = "loaded"
    /\ LET r == compute_B_eff(model.flags, model.constraints)
       IN  IF r < 0
           THEN /\ pc' = "crashed"
                /\ UNCHANGED <<B_eff, n_eff, stdout>>
           ELSE /\ B_eff' = r
                /\ n_eff' = count_category_leaves(model.categories)
                /\ stdout' = Append(stdout, "header")
                /\ pc' = IF args.enumerate THEN "enumerate" ELSE "emit"
    /\ UNCHANGED <<doc, args, model, valid, evals, est, sql, out_file,
                   summary, workers, genvars>>

\* if args.enumerate: valid = enumerate_valid_masks(model), then the count
\* or the "Enumeration skipped" line.
Enumerate ==
    /\ pc = "enumerate"
    /\ LET r == enumerate_valid_masks(model)
       IN  /\ evals' = r.evals
           /\ IF r.err
              THEN /\ pc' = "crashed"
                   /\ UNCHANGED <<valid, stdout>>
              ELSE /\ valid' = r.out
                   /\ stdout' = Append(stdout, IF r.out # << >>
                                               THEN "valid_masks"
                                               ELSE "skipped")
                   /\ pc' = IF r.out # << >> THEN "estimate" ELSE "emit"
    /\ UNCHANGED <<doc, args, model, B_eff, n_eff, est, sql, out_file,
                   summary, workers, genvars>>

\* if args.enumerate and valid: est = estimate_sanity(model, valid), the
\* estimates block, then sm = latest_summary_metrics(name) and the actuals
\* block when sm gives decision_rows (an exception of the reader ends the
\* run).
Estimate ==
    /\ pc = "estimate"
    /\ est' = estimate_sanity(model, valid)
    /\ LET sm == latest_summary_metrics(summary)
       IN  IF sm.err
           THEN /\ stdout' = Append(stdout, "estimates")
                /\ pc' = "crashed"
           ELSE /\ stdout' = Append(stdout, "estimates")
                                \o (IF sm.sm /\ ~sm.decision_rows.none
                                    THEN <<"actuals">> ELSE << >>)
                /\ pc' = "emit"
    /\ UNCHANGED <<doc, args, model, B_eff, n_eff, valid, evals, sql, out_file,
                   summary, workers, genvars>>

\* main() with the text built so far handed to the writer when
\* emit_postgres_sql fails.
Emit_partial ==
    /\ pc = "emit"
    /\ LET r == emit_postgres_sql(model)
       IN  /\ sql' = IF r.err THEN [NoArtifact EXCEPT !.name = model.name]
                     ELSE r.art
           /\ pc' = "write"
    /\ UNCHANGED <<doc, args, model, B_eff, n_eff, valid, evals, est, out_file,
                   stdout, summary,
                   workers, genvars>>

\* sql = emit_postgres_sql(model)
Emit ==
    /\ pc = "emit"
    /\ LET r == emit_postgres_sql(model)
       IN  IF r.err
           THEN /\ pc' = "crashed"
                /\ UNCHANGED sql
           ELSE /\ sql' = r.art
                /\ pc' = "write"
    /\ UNCHANGED <<doc, args, model, B_eff, n_eff, valid, evals, est, out_file,
                   stdout, summary,
                   workers, genvars>>

\* if args.out_sql: write the file, else print the SQL
Write ==
    /\ pc = "write"
    /\ IF args.out_sql
       THEN /\ out_file' = [written |-> TRUE, content |-> sql]
            /\ UNCHANGED stdout
       ELSE /\ stdout' = Append(stdout, "sql")
            /\ UNCHANGED out_file
    /\ pc' = "done"
    /\ UNCHANGED <<doc, args, model, B_eff, n_eff, valid, evals, est, sql,
                   summary, workers, genvars>>

Next == Load \/ Reduce \/ Enumerate \/ Estimate \/ Emit \/ Write

Spec == Init /\ [][Next]_vars

\* ------------------------------------------------- sub-ranges of masks
\* [m for m in range(1 << B) if ok(m)] evaluated sub-range by sub-range:
\* range(1 << B) is cut into contiguous sub-ranges, each with a worker that
\* calls ok on its masks in ascending order; the workers take their steps
\* in any interleaving.
MaxWorkers == 2

\* Bit-only and category-aware constraints on declared flags.
ParU(B) ==
    {Implies("a", FlagNames[B]), Equiv("a", FlagNames[B]),
     Mutex("a", FlagNames[B]), OneOf(SubSeq(FlagNames, 1, B)),
     OneOf(<<"a", "a">>), ForbidWhen("a", << >>)}

\* Documents of at most two constraints, without enumeration limit.
FamPar ==
    UNION {{Run(Doc(B, CatsNone, cons, FALSE, 0), TRUE, FALSE) :
               cons \in ChainLists(ParU(B), 2)} :
           B \in 1..MaxFlags}

\* The cuts of range(top) into n contiguous sub-ranges, empty ones
\* included: the n - 1 inner bounds, in ascending order.
Cuts(top, n) ==
    {c \in [1..(n - 1) -> 0..top] :
        \A i \in 1..(n - 2) : c[i] <= c[i + 1]}

\* The workers of a cut: worker w has range(lo, hi), is about to evaluate
\* `next` and has kept the masks of `out`.
Workers(top, n, c) ==
    [w \in 1..n |->
        LET lo == IF w = 1 THEN 0 ELSE c[w - 1]
            hi == IF w = n THEN top ELSE c[w]
        IN  [lo |-> lo, hi |-> hi, next |-> lo, out |-> << >>]]

InitPar ==
    /\ \E r \in FamPar :
          /\ doc = r.doc
          /\ args = r.args
          /\ model = r.doc
          /\ \E n \in 1..MaxWorkers :
                \E c \in Cuts(2 ^ Len(r.doc.flags), n) :
                    workers = Workers(2 ^ Len(r.doc.flags), n, c)
    /\ call = [file |-> "", model |-> "", n_rows |-> 0, seed |-> 0]
    /\ stream = << >>
    /\ calls = << >>
    /\ devs = 0
    /\ summary = NoSummary
    /\ out_file = [written |-> FALSE, content |-> NoArtifact]
    /\ pc = "enumerate"
    /\ B_eff = 0
    /\ n_eff = 0
    /\ valid = << >>
    /\ evals = 0
    /\ est = NoEst
    /\ sql = NoArtifact
    /\ stdout = << >>

\* One call of ok(m) by worker w, on the next mask of its sub-range.
Work(w) ==
    /\ pc = "enumerate"
    /\ workers[w].next < workers[w].hi
    /\ LET m == workers[w].next
           r == ok(bitpos_map(model.flags), model.constraints, m)
       IN  /\ r # "KeyError"
           /\ workers' = [workers EXCEPT
                            ![w].next = m + 1,
                            ![w].out = IF r = "T" THEN Append(@, m) ELSE @]
    /\ evals' = evals + 1
    /\ UNCHANGED <<doc, args, pc, model, B_eff, n_eff, valid, est, sql,
                   out_file, stdout, summary, genvars>>

\* The kept masks of workers i..Len(ws), in range order.
RECURSIVE Concat(_, _)
Concat(ws, i) ==
    IF i > Len(ws) THEN << >> ELSE ws[i].out \o Concat(ws, i + 1)

\* The kept masks of workers i..1, last sub-range first.
RECURSIVE ConcatRev(_, _)
ConcatRev(ws, i) ==
    IF i < 1 THEN << >> ELSE ws[i].out \o ConcatRev(ws, i - 1)

\* Join with the workers' lists taken last sub-range first.
Join_rev ==
    /\ pc = "enumerate"
    /\ \A w \in DOMAIN workers : workers[w].next >= workers[w].hi
    /\ valid' = ConcatRev(workers, Len(workers))
    /\ pc' = "estimate"
    /\ UNCHANGED <<doc, args, model, B_eff, n_eff, evals, est, sql, out_file,
                   stdout, summary, workers, genvars>>

\* Every sub-range is done: the list is the workers' lists in range order.
Join ==
    /\ pc = "enumerate"
    /\ \A w \in DOMAIN workers : workers[w].next >= workers[w].hi
    /\ valid' = Concat(workers, 1)
    /\ pc' = "estimate"
    /\ UNCHANGED <<doc, args, model, B_eff, n_eff, evals, est, sql, out_file,
                   stdout, summary, workers, genvars>>

NextPar == (\E w \in DOMAIN workers : Work(w)) \/ Join

SpecPar == InitPar /\ [][NextPar]_vars

\* ------------------------------------------------------ the data generator
\* make_data.py exists twice, as src/make_data.py and as
\* src/acbp/make_data.py; the two differ in sample_inpatient_row only.
CLINIC_FLAGS ==
    <<"booked", "checked_in", "seen_by_doctor", "canceled", "rescheduled">>

CLINIC_CATS ==
    [appt_type |-> <<"NewPatient", "FollowUp", "Urgent", "Procedure",
                     "Teleconsult">>,
     site |-> <<"Main", "Annex", "Downtown">>,
     age_group |-> <<"Peds", "Adult", "Geriatric">>,
     department |-> <<"General", "Cardiology", "Orthopedics", "Imaging",
                      "Pediatrics">>,
     provider_role |-> <<"Attending", "Resident", "NP/PA">>,
     modality |-> <<"InPerson", "Virtual">>,
     visit_hour |-> <<"08:00", "09:00", "10:00", "11:00", "14:00">>,
     weekday |-> <<"Mon", "Tue", "Wed", "Thu", "Fri">>,
     insurance |-> <<"SelfPay", "Private", "Government">>]

INPATIENT_FLAGS ==
    <<"booked", "checked_in", "in_icu", "discharged", "expired",
      "transferred">>

INPATIENT_CATS ==
    [admission_type |-> <<"Elective", "Emergency", "Transfer", "Maternity">>,
     site |-> <<"Main", "Annex", "Downtown">>,
     age_group |-> <<"Peds", "Adult", "Geriatric">>,
     ward |-> <<"Med", "Surg", "ICU", "PICU", "Onc">>,
     payer |-> <<"SelfPay", "Private", "Government">>,
     arrival_source |-> <<"ER", "Clinic", "OtherHospital">>,
     admit_hour |-> <<"06:00", "09:00", "12:00", "18:00">>,
     weekday |-> <<"Mon", "Tue", "Wed", "Thu", "Fri">>]

\* The options of the demographics catalogs; every weight is positive.
DEM_SEX == <<"M", "F", "Other">>
DEM_LANGUAGE == <<"EN", "AR">>
DEM_CITY == <<"Riyadh", "Jeddah", "Dammam", "Mecca", "Medina">>

\* m |= (1 << i) for every flag at index i whose bit is set.
RECURSIVE pack_mask_from(_, _, _)
pack_mask_from(bits, flags, i) ==
    IF i > Len(flags) THEN 0
    ELSE (IF flags[i] \in DOMAIN bits /\ bits[flags[i]] # 0
          THEN 2 ^ (i - 1) ELSE 0)
         + pack_mask_from(bits, flags, i + 1)

pack_mask(bits, flags) == pack_mask_from(bits, flags, 1)

\* A generator yields draws, numbers in 0..MaxDraw. The largest number a
\* draw yields, the most draws of a run that are not 0 and the most rows.
MaxDraw == 4
MaxDev == 2
MaxRows == 2

\* The seed of main() when --seed is not given.
DefaultSeed == 42

\* The most draws one row takes: 17 in sample_clinic_row and 3 in generate.
RowDraws == 20

\* choices(options, weights, k=1)[0] and choice(options) on the draw d: the
\* weights are positive, so every option can be drawn.
choices(options, d) == options[(d % Len(options)) + 1]

wpick(options, d) == choices(options, d)

\* random() < p on the draw d, for 0 < p < 1.
below(d) == d % 2 = 1

\* The draws of one row: RowDraws numbers of which at most b are not 0.
RECURSIVE Tapes(_)
Tapes(b) ==
    IF b <= 0 THEN {[k \in 1..RowDraws |-> 0]}
    ELSE LET T == Tapes(b - 1)
         IN  T \cup {[t EXCEPT ![p] = v] :
                        t \in T, p \in 1..RowDraws, v \in 1..MaxDraw}

\* Tapes(b) for every b a run can have left.
AllTapes == [b \in 0..MaxDev |-> Tapes(b)]

\* {f: 0 for f in flags}
ZeroBits(flags) == [f \in Range(flags) |-> 0]

\* The samplers are written step by step. A step takes and returns the
\* sampler's locals: the row, the bits and n, the number of draws taken so
\* far from the draws t of its generator.

\* row["mask"] = str(pack_mask(bits, flags)); return row. The result keeps
\* the bits packed into the mask and the number of draws taken.
Return(s, flags) ==
    [row |-> s.row @@ [mask |-> pack_mask(s.bits, flags)],
     bits |-> s.bits,
     used |-> s.n]

\* sample_clinic_row: the nine category draws.
clinic_row(t) ==
    [row |->
       [appt_type |-> choices(<<"NewPatient", "FollowUp", "Urgent",
                    "Procedure", "Teleconsult">>, t[1]),
        site |-> choices(<<"Main", "Annex", "Downtown">>, t[2]),
        age_group |-> choices(<<"Peds", "Adult", "Geriatric">>, t[3]),
        department |-> choices(<<"General", "Cardiology", "Orthopedics",
                    "Imaging", "Pediatrics">>, t[4]),
        provider_role |-> choices(<<"Attending", "Resident", "NP/PA">>,
                    t[5]),
        modality |-> choices(<<"InPerson", "Virtual">>, t[6]),
        visit_hour |-> choices(<<"08:00", "09:00", "10:00", "11:00",
                    "14:00">>, t[7]),
        weekday |-> choices(<<"Mon", "Tue", "Wed", "Thu", "Fri">>, t[8]),
        insurance |-> choices(<<"SelfPay", "Private", "Government">>,
                    t[9])],
     bits |-> ZeroBits(CLINIC_FLAGS),
     n |-> 9]

\* if row["appt_type"] == "Teleconsult": row["modality"] = "Virtual"
clinic_teleconsult(s) ==
    IF s.row.appt_type = "Teleconsult"
    THEN [s EXCEPT !.row.modality = "Virtual"] ELSE s

\* A virtual visit is a FollowUp or a Teleconsult.
clinic_virtual_type(s, t) ==
    IF s.row.modality = "Virtual"
         /\ s.row.appt_type \notin {"FollowUp", "Teleconsult"}
    THEN [s EXCEPT !.row.appt_type =
                       choices(<<"FollowUp", "Teleconsult">>, t[s.n + 1]),
                   !.n = @ + 1]
    ELSE s

\* Imaging and Orthopedics are in person.
clinic_virtual_department(s) ==
    IF s.row.modality = "Virtual"
         /\ s.row.department \in {"Imaging", "Orthopedics"}
    THEN [s EXCEPT !.row.modality = "InPerson"] ELSE s

\* if row["department"] == "Pediatrics": row["age_group"] = "Peds"
clinic_pediatrics(s) ==
    IF s.row.department = "Pediatrics"
    THEN [s EXCEPT !.row.age_group = "Peds"] ELSE s

\* No Cardiology at the Annex.
clinic_annex(s, t) ==
    IF s.row.site = "Annex" /\ s.row.department = "Cardiology"
    THEN [s EXCEPT !.row.department =
                       choices(<<"General", "Orthopedics", "Imaging",
                                 "Pediatrics">>, t[s.n + 1]),
                   !.n = @ + 1]
    ELSE s

\* The stage and its bits; a seen visit is moved to 09:00 or 10:00 when
\* random() < 0.6.
clinic_stage(s, t) ==
    LET stage == choices(<<"canceled", "rescheduled", "booked_only",
                           "checked_in", "seen">>, t[s.n + 1])
        z == s.bits
    IN  CASE stage = "canceled" ->
               [s EXCEPT !.bits = [z EXCEPT !["canceled"] = 1,
                                            !["booked"] = 1],
                         !.n = @ + 1]
          [] stage = "rescheduled" ->
               [s EXCEPT !.bits = [z EXCEPT !["rescheduled"] = 1,
                                            !["booked"] = 1],
                         !.n = @ + 1]
          [] stage = "booked_only" ->
               [s EXCEPT !.bits = [z EXCEPT !["booked"] = 1], !.n = @ + 1]
          [] stage = "checked_in" ->
               [s EXCEPT !.bits = [z EXCEPT !["checked_in"] = 1,
                                            !["booked"] = 1],
                         !.n = @ + 1]
          [] OTHER ->
               IF below(t[s.n + 2])
               THEN [s EXCEPT !.bits = [z EXCEPT !["seen_by_doctor"] = 1,
                                                 !["checked_in"] = 1,
                                                 !["booked"] = 1],
                              !.row.visit_hour =
                                  choices(<<"09:00", "10:00">>, t[s.n + 3]),
                              !.n = @ + 3]
               ELSE [s EXCEPT !.bits = [z EXCEPT !["seen_by_doctor"] = 1,
                                                 !["checked_in"] = 1,
                                                 !["booked"] = 1],
                              !.n = @ + 2]

\* if rng.random() < 0.06: a row whose bits break a rule of the model.
clinic_noise(s, t) ==
    IF ~below(t[s.n + 1]) THEN [s EXCEPT !.n = @ + 1]
    ELSE IF below(t[s.n + 2])
    THEN [s EXCEPT !.bits = [@ EXCEPT !["checked_in"] = 1, !["booked"] = 0],
                   !.n = @ + 2]
    ELSE [s EXCEPT !.bits = [@ EXCEPT !["seen_by_doctor"] = 1,
                                      !["checked_in"] = 0,
                                      !["booked"] =
                                          choices(<<0, 1>>, t[s.n + 3])],
                   !.n = @ + 3]

\* sample_clinic_row on the draws t of its generator.
sample_clinic_row(t) ==
    Return(clinic_noise(
             clinic_stage(
               clinic_annex(
                 clinic_pediatrics(
                   clinic_virtual_department(
                     clinic_virtual_type(
                       clinic_teleconsult(clinic_row(t)), t))), t), t), t),
           CLINIC_FLAGS)

\* sample_inpatient_row of src/make_data.py: the eight category draws.
inpatient_row(t) ==
    [row |->
       [admission_type |-> choices(<<"Elective", "Emergency", "Transfer",
                    "Maternity">>, t[1]),
        site |-> choices(<<"Main", "Annex", "Downtown">>, t[2]),
        age_group |-> choices(<<"Peds", "Adult", "Geriatric">>, t[3]),
        ward |-> choices(<<"Med", "Surg", "ICU", "PICU", "Onc">>, t[4]),
        payer |-> choices(<<"SelfPay", "Private", "Government">>, t[5]),
        arrival_source |-> choices(<<"ER", "Clinic", "OtherHospital">>,
                    t[6]),
        admit_hour |-> choices(<<"06:00", "09:00", "12:00", "18:00">>,
                    t[7]),
        weekday |-> choices(<<"Mon", "Tue", "Wed", "Thu", "Fri">>, t[8])],
     bits |-> ZeroBits(INPATIENT_FLAGS),
     n |-> 8]

\* An elective admission does not arrive from the ER.
inpatient_elective_source(s, t) ==
    IF s.row.admission_type = "Elective" /\ s.row.arrival_source = "ER"
    THEN [s EXCEPT !.row.arrival_source =
                       choices(<<"Clinic", "OtherHospital">>, t[s.n + 1]),
                   !.n = @ + 1]
    ELSE s

\* An elective admission is at 09:00 or 12:00.
inpatient_elective_hour(s, t) ==
    IF s.row.admission_type = "Elective"
         /\ s.row.admit_hour \in {"06:00", "18:00"}
    THEN [s EXCEPT !.row.admit_hour =
                       choices(<<"09:00", "12:00">>, t[s.n + 1]),
                   !.n = @ + 1]
    ELSE s

\* The PICU is at Main.
inpatient_picu(s) ==
    IF s.row.ward = "PICU" /\ s.row.site # "Main"
    THEN [s EXCEPT !.row.site = "Main"] ELSE s

\* if row["admission_type"] == "Maternity": row["age_group"] = "Adult"
inpatient_maternity(s) ==
    IF s.row.admission_type = "Maternity"
    THEN [s EXCEPT !.row.age_group = "Adult"] ELSE s

\* bits of a stage past booked_only, with the flag f of the stage.
Admitted(z, f) == [z EXCEPT !["booked"] = 1, !["checked_in"] = 1, ![f] = 1]

\* The stage and its bits; the icu stage moves the row to an ICU ward.
inpatient_stage(s, t) ==
    LET stage == choices(<<"booked_only", "checked_in", "icu", "discharged",
                           "expired", "transferred">>, t[s.n + 1])
        z == s.bits
        ward == choices(<<"ICU", "PICU">>, t[s.n + 2])
    IN  CASE stage = "booked_only" ->
               [s EXCEPT !.bits = [z EXCEPT !["booked"] = 1], !.n = @ + 1]
          [] stage = "checked_in" ->
               [s EXCEPT !.bits = Admitted(z, "checked_in"), !.n = @ + 1]
          [] stage = "icu" ->
               IF s.row.ward \notin {"ICU", "PICU"}
               THEN [s EXCEPT !.bits = Admitted(z, "in_icu"),
                              !.row.ward = ward,
                              !.row.site = IF ward = "PICU" THEN "Main" ELSE @,
                              !.n = @ + 2]
               ELSE [s EXCEPT !.bits = Admitted(z, "in_icu"), !.n = @ + 1]
          [] stage = "discharged" ->
               [s EXCEPT !.bits = Admitted(z, "discharged"), !.n = @ + 1]
          [] stage = "expired" ->
               [s EXCEPT !.bits = Admitted(z, "expired"), !.n = @ + 1]
          [] OTHER ->
               [s EXCEPT !.bits = Admitted(z, "transferred"),
                         !.row.arrival_source = "OtherHospital",
                         !.n = @ + 1]

\* if random.random() < 0.05: a row that breaks a rule of the model.
inpatient_noise(s, t) ==
    LET c == choices(<<"discharged_without_checked_in", "icu_wrong_ward",
                       "transfer_wrong_source">>, t[s.n + 2])
    IN  IF ~below(t[s.n + 1]) THEN [s EXCEPT !.n = @ + 1]
        ELSE IF c = "discharged_without_checked_in"
        THEN [s EXCEPT !.bits = [@ EXCEPT !["discharged"] = 1,
                                          !["checked_in"] = 0,
                                          !["booked"] =
                                              choices(<<0, 1>>, t[s.n + 3])],
                       !.n = @ + 3]
        ELSE IF c = "icu_wrong_ward"
        THEN [s EXCEPT !.bits = Admitted(@, "in_icu"),
                       !.row.ward =
                           choices(<<"Med", "Surg", "Onc">>, t[s.n + 3]),
                       !.n = @ + 3]
        ELSE [s EXCEPT !.bits = Admitted(@, "transferred"),
                       !.row.arrival_source =
                           choices(<<"ER", "Clinic">>, t[s.n + 3]),
                       !.n = @ + 3]

\* sample_inpatient_row of src/make_data.py on the draws t it takes; all of
\* them come from the module `random`, none from its argument rng.
sample_inpatient_row(t) ==
    Return(inpatient_noise(
             inpatient_stage(
               inpatient_maternity(
                 inpatient_picu(
                   inpatient_elective_hour(
                     inpatient_elective_source(inpatient_row(t), t), t))),
               t), t),
           INPATIENT_FLAGS)

\* sample_inpatient_row of src/acbp/make_data.py: the eight category
\* draws, from catalogs of its own.
inpatient_row_acbp(t) ==
    [row |->
       [admission_type |-> choices(<<"Elective", "Emergency",
                    "Transfer">>, t[1]),
        site |-> choices(<<"Main", "Annex">>, t[2]),
        age_group |-> choices(<<"Adult", "Peds">>, t[3]),
        ward |-> choices(<<"Medical", "Surgical", "ICU", "StepDown">>,
                    t[4]),
        payer |-> choices(<<"SelfPay", "Private", "Public">>, t[5]),
        arrival_source |-> choices(<<"ED", "Clinic", "Transfer",
                    "Direct">>, t[6]),
        admit_hour |-> choices(<<"00:00", "04:00", "08:00", "12:00",
                    "16:00", "20:00">>, t[7]),
        weekday |-> choices(<<"Mon", "Tue", "Wed", "Thu", "Fri", "Sat",
                    "Sun">>, t[8])],
     bits |-> ZeroBits(INPATIENT_FLAGS),
     n |-> 8]

\* The stage and its bits, unbooked among the stages.
inpatient_stage_acbp(s, t) ==
    LET stage == choices(<<"unbooked", "booked_only", "checked_in", "icu",
                           "discharged", "expired", "transferred">>,
                         t[s.n + 1])
        z == s.bits
    IN  CASE stage = "unbooked" -> [s EXCEPT !.n = @ + 1]
          [] stage = "booked_only" ->
               [s EXCEPT !.bits = [z EXCEPT !["booked"] = 1], !.n = @ + 1]
          [] stage = "checked_in" ->
               [s EXCEPT !.bits = Admitted(z, "checked_in"), !.n = @ + 1]
          [] stage = "icu" ->
               [s EXCEPT !.bits = Admitted(z, "in_icu"), !.row.ward = "ICU",
                         !.n = @ + 1]
          [] stage = "discharged" ->
               [s EXCEPT !.bits = Admitted(z, "discharged"), !.n = @ + 1]
          [] stage = "expired" ->
               [s EXCEPT !.bits = Admitted(z, "expired"), !.n = @ + 1]
          [] OTHER ->
               [s EXCEPT !.bits = Admitted(z, "transferred"),
                         !.row.arrival_source = "Transfer",
                         !.n = @ + 1]

\* An Emergency admission that is booked or checked in becomes, when
\* random() < 0.85, an Elective or a Transfer one; else its bits are
\* cleared.
inpatient_emergency_acbp(s, t) ==
    IF ~(/\ s.row.admission_type = "Emergency"
         /\ (s.bits["booked"] # 0 \/ s.bits["checked_in"] # 0))
    THEN s
    ELSE IF below(t[s.n + 1])
    THEN [s EXCEPT !.row.admission_type =
                       choices(<<"Elective", "Transfer">>, t[s.n + 2]),
                   !.n = @ + 2]
    ELSE [s EXCEPT !.bits = ZeroBits(INPATIENT_FLAGS), !.n = @ + 1]

\* if rng.random() < 0.05: a row that breaks a rule of the model.
inpatient_noise_acbp(s, t) ==
    LET bad == choices(<<"icu_wrong_ward", "discharged_without_checked_in",
                         "discharged_with_transfer_source">>, t[s.n + 2])
    IN  IF ~below(t[s.n + 1]) THEN [s EXCEPT !.n = @ + 1]
        ELSE IF bad = "icu_wrong_ward"
        THEN [s EXCEPT !.bits = Admitted(@, "in_icu"),
                       !.row.ward =
                           choices(<<"Medical", "Surgical", "StepDown">>,
                                   t[s.n + 3]),
                       !.n = @ + 3]
        ELSE IF bad = "discharged_without_checked_in"
        THEN [s EXCEPT !.bits = [@ EXCEPT !["discharged"] = 1,
                                          !["checked_in"] = 0,
                                          !["booked"] =
                                              choices(<<0, 1>>, t[s.n + 3])],
                       !.n = @ + 3]
        ELSE [s EXCEPT !.bits = Admitted(@, "discharged"),
                       !.row.arrival_source = "Transfer",
                       !.n = @ + 2]

\* sample_inpatient_row of src/acbp/make_data.py on the draws t of its
\* generator rng.
sample_inpatient_row_acbp(t) ==
    Return(inpatient_noise_acbp(
             inpatient_emergency_acbp(
               inpatient_stage_acbp(inpatient_row_acbp(t), t), t), t),
           INPATIENT_FLAGS)

\* The sampler generate selects for the model name, in the given file.
sampler(file, name, t) ==
    IF name = "clinic_visit" THEN sample_clinic_row(t)
    ELSE IF file = "src/make_data.py" THEN sample_inpatient_row(t)
    ELSE sample_inpatient_row_acbp(t)

\* Whether the sampler draws from the generator rng it is given.
DrawsFromRng(file, name) ==
    ~(file = "src/make_data.py" /\ name = "inpatient_admission")

\* The categories of cat_header in generate.
CatsOf(name) ==
    IF name = "clinic_visit" THEN CLINIC_CATS ELSE INPATIENT_CATS

\* The rows write_csv writes: each row's value under every column of the
\* header, "" where the row has none.
write_csv(rows, header) ==
    [i \in DOMAIN rows |->
        [k \in header |-> IF k \in DOMAIN rows[i] THEN rows[i][k] ELSE ""]]

\* Two calls of generate with the same model name, n_rows and seed, one
\* after the other. A call has its rows, the bits of each row's mask, the
\* number of draws taken from rng and the two files it writes.
InitData ==
    /\ \E f \in {"src/make_data.py", "src/acbp/make_data.py"},
          name \in {"clinic_visit", "inpatient_admission"},
          n \in 0..MaxRows :
            call = [file |-> f, model |-> name, n_rows |-> n,
                    seed |-> DefaultSeed]
    /\ stream = << >>
    /\ calls = [c \in 1..2 |->
                   [rows |-> << >>, bits |-> << >>, pos |-> 0,
                    written |-> FALSE, part1 |-> << >>, part2 |-> << >>]]
    /\ devs = 0
    /\ doc = NoModel
    /\ args = [enumerate |-> FALSE, out_sql |-> FALSE]
    /\ summary = NoSummary
    /\ out_file = [written |-> FALSE, content |-> NoArtifact]
    /\ pc = "generate"
    /\ model = NoModel
    /\ B_eff = 0
    /\ n_eff = 0
    /\ valid = << >>
    /\ evals = 0
    /\ est = NoEst
    /\ sql = NoArtifact
    /\ stdout = << >>
    /\ workers = << >>

\* One pass of the loop of generate in call c: a row of the sampler, then
\* patient_mrn and the three demographics drawn from rng. The first call
\* finds out what Random(seed) yields; the second call, seeded alike, is
\* yielded the same. What the module `random` yields is new each time.
\* The second call starts when the first has written its files.
Sample(c) ==
    /\ ~calls[c].written
    /\ c = 1 \/ calls[1].written
    /\ Len(calls[c].rows) < call.n_rows
    /\ devs <= MaxDev
    /\ \E t \in AllTapes[MaxDev - devs] :
          LET i == Len(calls[c].rows)
              seeded == DrawsFromRng(call.file, call.model)
              again == SubSeq(stream, calls[c].pos + 1, Len(stream))
                         \o [j \in 1..RowDraws |-> 0]
              s == sampler(call.file, call.model,
                           IF seeded /\ c = 2 THEN again ELSE t)
              k == IF seeded THEN s.used ELSE 0
              dem == IF c = 2 THEN SubSeq(again, k + 1, k + 3)
                     ELSE SubSeq(t, s.used + 1, s.used + 3)
              r == s.row @@ [patient_mrn |-> <<call.seed, i>>,
                             sex |-> wpick(DEM_SEX, dem[1]),
                             language |-> wpick(DEM_LANGUAGE, dem[2]),
                             city |-> wpick(DEM_CITY, dem[3])]
          IN  /\ (seeded /\ c = 2) => \A j \in DOMAIN t : t[j] = 0
              /\ calls' = [calls EXCEPT ![c].rows = Append(@, r),
                                        ![c].bits = Append(@, s.bits),
                                        ![c].pos = @ + k + 3]
              /\ stream' = IF c # 1 THEN stream
                           ELSE IF seeded
                           THEN stream \o SubSeq(t, 1, s.used + 3)
                           ELSE stream \o SubSeq(t, s.used + 1, s.used + 3)
              /\ devs' = devs + Cardinality({j \in DOMAIN t : t[j] # 0})
    /\ UNCHANGED <<doc, args, pc, model, B_eff, n_eff, valid, evals, est, sql,
                   out_file, stdout, summary, workers, call>>

\* The end of generate in call c: rows[:mid] and rows[mid:] are written.
WriteParts(c) ==
    /\ ~calls[c].written
    /\ c = 1 \/ calls[1].written
    /\ Len(calls[c].rows) >= call.n_rows
    /\ LET rows == calls[c].rows
           mid == call.n_rows \div 2
           header == {"mask", "patient_mrn", "sex", "language", "city"}
                       \cup DOMAIN CatsOf(call.model)
       IN  calls' = [calls EXCEPT
                       ![c].part1 = write_csv(SubSeq(rows, 1, mid), header),
                       ![c].part2 = write_csv(SubSeq(rows, mid + 1, Len(rows)),
                                              header),
                       ![c].written = TRUE]
    /\ UNCHANGED <<doc, args, pc, model, B_eff, n_eff, valid, evals, est, sql,
                   out_file, stdout, summary, workers, call, stream, devs>>

NextData == \E c \in 1..2 : Sample(c) \/ WriteParts(c)

SpecData == InitData /\ [][NextData]_vars

\* ------------------------------------------------------------ properties
\* What the specification says of masks and constraints, stated on sets of
\* flags: a mask stands for the set of flags whose bit is set.
RECURSIVE MaskOf(_, _, _)
MaskOf(S, flags, i) ==
    IF i > Len(flags) THEN 0
    ELSE (IF flags[i] \in S THEN 2 ^ (i - 1) ELSE 0) + MaskOf(S, flags, i + 1)

TypeIs(c, t) == Upper(c.type) = t

\* The validity condition of one bit-only constraint on the set S.
BitRuleHolds(c, S) ==
    /\ TypeIs(c, "IMPLIES") => (c.a \in S => c.b \in S)
    /\ TypeIs(c, "EQUIV") => (c.a \in S <=> c.b \in S)
    /\ TypeIs(c, "MUTEX") => ~(c.a \in S /\ c.b \in S)
    /\ TypeIs(c, "ONEOF") => Cardinality(S \cap Range(c.flags)) = 1

BitRulesHold(cons, S) == \A i \in DOMAIN cons : BitRuleHolds(cons[i], S)

\* The masks of the model that satisfy every bit-only constraint.
SpecValidMasks(m) ==
    {MaskOf(S, m.flags, 1) :
        S \in {T \in SUBSET Range(m.flags) : BitRulesHold(m.constraints, T)}}

\* The set of flags a mask stands for.
FlagsOfMask(mask, flags) == {flags[i] : i \in {j \in DOMAIN flags : bit(mask, j - 1) = 1}}

Ascending(s) == \A i \in 1..(Len(s) - 1) : s[i] < s[i + 1]

\* ONEOF names a set of flags: no flag twice.
OneofAreSets(cons) ==
    \A i \in DOMAIN cons :
        TypeIs(cons[i], "ONEOF") =>
            \A j, k \in DOMAIN cons[i].flags :
                j # k => cons[i].flags[j] # cons[i].flags[k]

\* enumerate_valid_masks has returned in this run.
EnumReturned == \E i \in DOMAIN stdout : stdout[i] \in {"valid_masks", "skipped"}

\* C1: when B <= enumeration_limit_bits, enumerate_valid_masks returns
\* exactly the masks of [0, 2^B) on which every IMPLIES, EQUIV, MUTEX and
\* ONEOF constraint holds, in strictly ascending order (hence without
\* duplicates), none outside [0, 2^B - 1].
C1_EnumerateExact ==
    (EnumReturned /\ Len(model.flags) <= limit_bits(model)
        /\ OneofAreSets(model.constraints))
    => /\ Range(valid) = SpecValidMasks(model)
       /\ Ascending(valid)
       /\ \A i \in DOMAIN valid : valid[i] \in 0..(2 ^ Len(model.flags) - 1)

\* C1 witness: an enumeration of three flags under two constraints that
\* keeps some masks and drops others.
C1_Witness ==
    /\ EnumReturned
    /\ Len(model.flags) = 3
    /\ Len(model.constraints) = 2
    /\ OneofAreSets(model.constraints)
    /\ Len(valid) > 1
    /\ Len(valid) < 8

\* C2: B > limit (22 when the field is absent): the result is empty and no
\* mask is evaluated; B = limit exactly: all 2^B masks are evaluated and the
\* result is the full enumeration.
C2_EnumerationBoundary ==
    LET B == Len(model.flags)
        limit == IF model.has_limit THEN model.enumeration_limit_bits ELSE 22
    IN  EnumReturned
        => /\ B > limit => (valid = << >> /\ evals = 0)
           /\ B <= limit => evals = 2 ^ B
           /\ (B = limit /\ OneofAreSets(model.constraints))
                => Range(valid) = SpecValidMasks(model)

\* C2 witness: B equals the declared limit and the enumeration ran.
C2_Witness ==
    /\ EnumReturned
    /\ model.has_limit
    /\ Len(model.flags) = model.enumeration_limit_bits
    /\ Len(model.flags) >= 2
    /\ evals = 2 ^ Len(model.flags)
    /\ valid # << >>
    /\ Len(valid) < evals

\* C3: a mask passes MUTEX(a,b) iff bit(a) + bit(b) <= 1; flags [a,b] with
\* MUTEX(a,b) alone enumerate to exactly 0, 1, 2.
C3_Mutex ==
    /\ \A i \in DOMAIN model.constraints :
         LET c == model.constraints[i]
         IN  (TypeIs(c, "MUTEX") /\ {c.a, c.b} \subseteq Range(model.flags))
             => \A m \in 0..(2 ^ Len(model.flags) - 1) :
                  LET S == FlagsOfMask(m, model.flags)
                  IN  (ok_constraint(bitpos_map(model.flags), c, m) = "T")
                      <=> ((IF c.a \in S THEN 1 ELSE 0)
                           + (IF c.b \in S THEN 1 ELSE 0) <= 1)
    /\ (EnumReturned /\ model.flags = <<"a", "b">>
          /\ model.constraints = <<Mutex("a", "b")>>)
       => valid = <<0, 1, 2>>

\* C3 witness: the enumeration of [a,b] under MUTEX(a,b) has returned.
C3_Witness ==
    /\ EnumReturned
    /\ model.flags = <<"a", "b">>
    /\ model.constraints = <<Mutex("a", "b")>>
    /\ 3 \notin Range(valid)

\* C4: a mask passes ONEOF(S) iff exactly one flag of S is set; flags
\* [a,b,c] with ONEOF([a,b,c]) alone enumerate to exactly 1, 2, 4.
C4_OneOf ==
    /\ \A i \in DOMAIN model.constraints :
         LET c == model.constraints[i]
         IN  (TypeIs(c, "ONEOF") /\ Range(c.flags) \subseteq Range(model.flags)
                /\ OneofAreSets(<<c>>))
             => \A m \in 0..(2 ^ Len(model.flags) - 1) :
                  (ok_constraint(bitpos_map(model.flags), c, m) = "T")
                  <=> Cardinality(FlagsOfMask(m, model.flags)
                                  \cap Range(c.flags)) = 1
    /\ (EnumReturned /\ model.flags = <<"a", "b", "c">>
          /\ model.constraints = <<OneOf(<<"a", "b", "c">>)>>)
       => valid = <<1, 2, 4>>

\* C4 witness: the enumeration of [a,b,c] under ONEOF([a,b,c]) has returned
\* without mask 0.
C4_Witness ==
    /\ EnumReturned
    /\ model.flags = <<"a", "b", "c">>
    /\ model.constraints = <<OneOf(<<"a", "b", "c">>)>>
    /\ 0 \notin Range(valid)
    /\ Len(valid) = 3

\* C5: a mask fails IMPLIES(a,b) iff bit(a) = 1 and bit(b) = 0; flags [a,b]
\* with IMPLIES(a,b) alone enumerate to exactly 0, 2, 3.
C5_Implies ==
    /\ \A i \in DOMAIN model.constraints :
         LET c == model.constraints[i]
         IN  (TypeIs(c, "IMPLIES") /\ {c.a, c.b} \subseteq Range(model.flags))
             => \A m \in 0..(2 ^ Len(model.flags) - 1) :
                  LET S == FlagsOfMask(m, model.flags)
                  IN  (ok_constraint(bitpos_map(model.flags), c, m) = "F")
                      <=> (c.a \in S /\ c.b \notin S)
    /\ (EnumReturned /\ model.flags = <<"a", "b">>
          /\ model.constraints = <<Implies("a", "b")>>)
       => valid = <<0, 2, 3>>

\* C5 witness: the enumeration of [a,b] under IMPLIES(a,b) has returned
\* with mask 2 (b without a) and without mask 1 (a without b).
C5_Witness ==
    /\ EnumReturned
    /\ model.flags = <<"a", "b">>
    /\ model.constraints = <<Implies("a", "b")>>
    /\ 2 \in Range(valid)
    /\ 1 \notin Range(valid)

\* The edges of the reduction graph: EQUIV(a,b), and IMPLIES(a,b) with
\* IMPLIES(b,a) also present.
SpecEdges(cons) ==
    LET imp == {<<cons[i].a, cons[i].b>> :
                    i \in {j \in DOMAIN cons : TypeIs(cons[j], "IMPLIES")}}
        eqv == {<<cons[i].a, cons[i].b>> :
                    i \in {j \in DOMAIN cons : TypeIs(cons[j], "EQUIV")}}
    IN  eqv \cup {p \in imp : <<p[2], p[1]>> \in imp}

\* The flags joined to x by a path of at most n edges, in either direction.
RECURSIVE SpecReach(_, _, _)
SpecReach(x, E, n) ==
    IF n = 0 THEN {x}
    ELSE LET R == SpecReach(x, E, n - 1)
         IN  R \cup {p[2] : p \in {q \in E : q[1] \in R}}
               \cup {p[1] : p \in {q \in E : q[2] \in R}}

\* The reduction step of this run has printed its report.
ReducePassed == \E i \in DOMAIN stdout : stdout[i] = "header"

\* C6: scc_equivalence returns a partition of flags in which two flags
\* share a class iff a path of EQUIV or mutual-IMPLIES edges joins them;
\* B_eff is the number of classes; one-directional IMPLIES and IMPLIES
\* cycles without mutual pairs merge nothing.
C6_Partition ==
    LET flags == model.flags
        cons  == model.constraints
        r     == scc_equivalence(flags, cons)
        comps == r.comps
        E     == SpecEdges(cons)
        imps  == {i \in DOMAIN cons : TypeIs(cons[i], "IMPLIES")}
    IN  ReducePassed
        => /\ ~r.err
           /\ \A i \in DOMAIN comps : comps[i] # {}
           /\ \A i, j \in DOMAIN comps : i # j => comps[i] \cap comps[j] = {}
           /\ UNION {comps[i] : i \in DOMAIN comps} = Range(flags)
           /\ \A x, y \in Range(flags) :
                (\E i \in DOMAIN comps : {x, y} \subseteq comps[i])
                <=> y \in SpecReach(x, E, Len(flags))
           /\ B_eff = Len(comps)
           /\ (flags = <<"a", "b", "c">> /\ cons = <<Equiv("a", "b")>>)
                => (B_eff = 2 /\ comps = <<{"a", "b"}, {"c"}>>)
           /\ (flags = <<"a", "b">>
                 /\ Range(cons) = {Implies("a", "b"), Implies("b", "a")})
                => B_eff = 1
           /\ (imps = DOMAIN cons
                 /\ \A i \in imps : \A j \in imps :
                       ~(cons[j].a = cons[i].b /\ cons[j].b = cons[i].a))
                => B_eff = Len(flags)

\* C6 witness: an IMPLIES cycle a -> b -> c -> a was reduced and merged
\* nothing.
C6_Witness ==
    /\ ReducePassed
    /\ model.flags = <<"a", "b", "c">>
    /\ Len(model.constraints) = 3
    /\ Range(model.constraints)
         = {Implies("a", "b"), Implies("b", "c"), Implies("c", "a")}
    /\ B_eff = 3

\* What the specification says of the category-aware constraints, on a set
\* S of flags and an assignment asg of a value to every category.
WhenMatches(when, asg) ==
    \A i \in DOMAIN when :
        IF when[i].islist THEN asg[when[i].k] \in Range(when[i].vals)
        ELSE asg[when[i].k] = when[i].vals[1]

ForbidWhenHolds(c, S, asg) ==
    TypeIs(c, "FORBID_WHEN") => ~(c.if_flag \in S /\ WhenMatches(c.when, asg))

ForbidIfSqlHolds(c, S, asg) ==
    TypeIs(c, "FORBID_IF_SQL")
        => ~(c.if_flag \in S /\ sql_condition(c.condition, asg) = "T")

CatNames(m) == {m.categories[i].name : i \in DOMAIN m.categories}

\* The cross product of the declared values: one value per category.
SpecAssignments(m) ==
    {asg \in [CatNames(m) ->
                UNION {Range(m.categories[i].vals) : i \in DOMAIN m.categories}] :
        \A i \in DOMAIN m.categories :
            asg[m.categories[i].name] \in Range(m.categories[i].vals)}

\* Argument lists of the validator: any text per category, declared or not.
ValidatorArgs(m) ==
    [CatNames(m) ->
        UNION {Range(m.categories[i].vals) : i \in DOMAIN m.categories}
        \cup {"Nowhere"}]

\* The data-model invariants of the references of category-aware rules:
\* if_flag is declared, `when` names declared categories, and the opaque
\* condition reads declared categories.
CatRefsDeclared(m) ==
    \A i \in DOMAIN m.constraints :
        LET c == m.constraints[i]
        IN  /\ TypeIs(c, "FORBID_WHEN")
                => /\ c.if_flag \in Range(m.flags)
                   /\ \A j \in DOMAIN c.when : c.when[j].k \in CatNames(m)
            /\ TypeIs(c, "FORBID_IF_SQL")
                => /\ c.if_flag \in Range(m.flags)
                   /\ \A asg \in SpecAssignments(m) :
                         sql_condition(c.condition, asg) # "ERR"

\* emit_postgres_sql has returned in this run.
Emitted == sql # NoArtifact

\* C7 as stated: the category-aware validator accepts (mask, values) iff
\* the bit-only predicate holds and no FORBID_WHEN rule has bit(f) = 1 with
\* every `when` entry matching.
C7_Original ==
    (Emitted /\ sql.have_cat_rules /\ CatRefsDeclared(model))
    => \A m \in 0..(2 ^ Len(model.flags) - 1) :
         \A a \in ValidatorArgs(model) :
            LET S == FlagsOfMask(m, model.flags)
            IN  (acbp_is_valid_cats(sql, m, a) = "T")
                <=> /\ BitRulesHold(model.constraints, S)
                    /\ \A i \in DOMAIN model.constraints :
                          ForbidWhenHolds(model.constraints[i], S, a)

\* C7 (amended): the category-aware validator accepts (mask, values) iff
\* the bit-only predicate holds, no FORBID_WHEN rule has bit(f) = 1 with
\* every `when` entry matching (scalar by equality, list by membership),
\* and no FORBID_IF_SQL rule has bit(f) = 1 with its condition true. With f
\* at bit 0 and FORBID_WHEN(f, {site: Annex}) it rejects (1, Annex) and
\* accepts (1, Main) and (0, Annex).
C7_Validator ==
    /\ (Emitted /\ sql.have_cat_rules /\ CatRefsDeclared(model))
       => \A m \in 0..(2 ^ Len(model.flags) - 1) :
            \A a \in ValidatorArgs(model) :
               LET S == FlagsOfMask(m, model.flags)
               IN  (acbp_is_valid_cats(sql, m, a) = "T")
                   <=> /\ BitRulesHold(model.constraints, S)
                       /\ \A i \in DOMAIN model.constraints :
                             /\ ForbidWhenHolds(model.constraints[i], S, a)
                             /\ ForbidIfSqlHolds(model.constraints[i], S, a)
    /\ (Emitted /\ model.categories = CatsSite /\ model.flags[1] = "a"
          /\ model.constraints = <<ForbidWhen("a", <<WhenEq("site", "Annex")>>)>>)
       => /\ acbp_is_valid_cats(sql, 1, [site |-> "Annex"]) = "F"
          /\ acbp_is_valid_cats(sql, 1, [site |-> "Main"]) = "T"
          /\ acbp_is_valid_cats(sql, 0, [site |-> "Annex"]) = "T"

\* C7 witness: a validator was emitted for a rule with a list-valued `when`
\* next to a bit-only rule; it rejects a mask the bit rule allows.
C7_Witness ==
    /\ Emitted
    /\ sql.have_cat_rules
    /\ model.categories = CatsSite
    /\ model.flags = <<"a", "b">>
    /\ model.constraints
         = <<Mutex("a", "b"),
             ForbidWhen("b", <<WhenIn("site", <<"Main", "Annex">>)>>)>>
    /\ acbp_is_valid(sql, 2) = "T"
    /\ acbp_is_valid_cats(sql, 2, [site |-> "Main"]) = "F"
    /\ acbp_is_valid_cats(sql, 1, [site |-> "Main"]) = "T"

\* C8: the decision-space relation holds the row (m, assignment) iff m is
\* in [0, 2^B - 1], the assignment is in the cross product of the declared
\* values and the combined bit and category predicate holds; it agrees
\* with the category-aware validator on every such pair, and without
\* category-aware rules it is (bit-valid masks) x (categories). Stated for
\* categories that each declare a value: the view over a category without
\* values is rejected by the engine.
C8_DecisionSpace ==
    LET ds == decision_space(sql)
        cons == model.constraints
        pairs == {[mask |-> m, cols |-> a] :
                     m \in 0..(2 ^ Len(model.flags) - 1),
                     a \in SpecAssignments(model)}
        holds(x) ==
            LET S == FlagsOfMask(x.mask, model.flags)
            IN  /\ BitRulesHold(cons, S)
                /\ \A i \in DOMAIN cons :
                      /\ ForbidWhenHolds(cons[i], S, x.cols)
                      /\ ForbidIfSqlHolds(cons[i], S, x.cols)
    IN  (Emitted /\ CatRefsDeclared(model) /\ OneofAreSets(cons)
           /\ cats_cte_typed(model.categories))
        => /\ ~ds.err
           /\ ds.rows = {x \in pairs : holds(x)}
           /\ sql.have_cat_rules
                => \A x \in pairs :
                      x \in ds.rows
                      <=> acbp_is_valid_cats(sql, x.mask, x.cols) = "T"
           /\ ~sql.have_cat_rules
                => ds.rows = {x \in pairs : x.mask \in SpecValidMasks(model)}

\* C8 witness: a decision space over a declared category in which a
\* category-aware rule removes some rows of a bit-valid mask and keeps
\* others.
C8_Witness ==
    /\ Emitted
    /\ CatRefsDeclared(model)
    /\ model.categories = CatsSite
    /\ sql.have_cat_rules
    /\ \E m \in 0..sql.max_mask :
          /\ [mask |-> m, cols |-> [site |-> "Main"]] \in decision_space(sql).rows
          /\ [mask |-> m, cols |-> [site |-> "Annex"]] \notin decision_space(sql).rows
    /\ \E m \in 0..sql.max_mask :
          \A a \in SpecAssignments(model) :
              [mask |-> m, cols |-> a] \notin decision_space(sql).rows

\* A constraint whose type is none of the six known ones.
UnknownType(c) ==
    Upper(c.type) \notin {"IMPLIES", "EQUIV", "MUTEX", "ONEOF", "FORBID_WHEN",
                          "FORBID_IF_SQL"}

\* C9: a model with a constraint of unknown type is rejected at load: the
\* run produces no enumeration result and no artifact.
C9_UnknownTypeRejected ==
    (\E i \in DOMAIN doc.constraints : UnknownType(doc.constraints[i]))
    => /\ ~EnumReturned
       /\ ~out_file.written
       /\ \A i \in DOMAIN stdout : stdout[i] # "sql"

\* A constraint names a flag that flags does not declare.
UndeclaredFlag(m) ==
    \E i \in DOMAIN m.constraints :
        LET c == m.constraints[i]
        IN  \/ (TypeIs(c, "IMPLIES") \/ TypeIs(c, "EQUIV") \/ TypeIs(c, "MUTEX"))
                /\ ~({c.a, c.b} \subseteq Range(m.flags))
            \/ TypeIs(c, "ONEOF") /\ ~(Range(c.flags) \subseteq Range(m.flags))
            \/ (TypeIs(c, "FORBID_WHEN") \/ TypeIs(c, "FORBID_IF_SQL"))
                /\ c.if_flag \notin Range(m.flags)

\* A FORBID_WHEN `when` names a category, or a value of a category, that
\* categories does not declare.
UndeclaredCategory(m) ==
    \E i \in DOMAIN m.constraints :
        LET c == m.constraints[i]
        IN  /\ TypeIs(c, "FORBID_WHEN")
            /\ \E j \in DOMAIN c.when :
                  \/ c.when[j].k \notin CatNames(m)
                  \/ ~(Range(c.when[j].vals)
                         \subseteq Range(cats_get(m.categories, c.when[j].k, << >>)))

\* C10: a model that references an undeclared flag, category or value is
\* rejected before any artifact is written, with or without --enumerate.
C10_UndeclaredRejected ==
    (UndeclaredFlag(doc) \/ UndeclaredCategory(doc))
    => /\ ~out_file.written
       /\ \A i \in DOMAIN stdout : stdout[i] # "sql"

\* The SQL text has been printed in this run.
SqlPrinted == \E i \in DOMAIN stdout : stdout[i] = "sql"

\* C11: the output path is written (and the SQL printed) only in the step
\* after emit_postgres_sql has returned the complete text, and with exactly
\* that text; a run that failed in reduction, enumeration or generation
\* has written nothing, printed no SQL, and has left the file that was at
\* the output path as it was.
C11_AllOrNothing ==
    /\ [](pc = "crashed"
            => /\ ~out_file.written
               /\ out_file.content \in {NoArtifact, OldArtifact}
               /\ ~SqlPrinted)
    /\ [][(out_file' # out_file \/ (SqlPrinted' /\ ~SqlPrinted))
            => /\ pc = "write"
               /\ ~emit_postgres_sql(model).err
               /\ sql = emit_postgres_sql(model).art
               /\ (out_file' # out_file
                     => out_file' = [written |-> TRUE, content |-> sql])]_vars

\* C11 witness: generation failed after a completed enumeration, with -o
\* given and an earlier artifact at the output path, which is still there.
C11_Witness ==
    /\ pc = "crashed"
    /\ args.out_sql
    /\ EnumReturned
    /\ out_file = [written |-> FALSE, content |-> OldArtifact]

\* The run has ended.
Ended == pc \in {"done", "crashed"}

\* The report a run of the document d under the command line a prints when
\* there is no historical record: a function of d and a alone.
ReportOf(d, a) ==
    LET e == enumerate_valid_masks(d)
        g == emit_postgres_sql(d)
    IN  IF compute_B_eff(d.flags, d.constraints) < 0 THEN << >>
        ELSE <<"header">>
             \o (IF ~a.enumerate THEN << >>
                 ELSE IF e.err THEN << >>
                 ELSE IF e.out = << >> THEN <<"skipped">>
                 ELSE <<"valid_masks", "estimates">>)
             \o (IF (a.enumerate /\ e.err) \/ g.err \/ a.out_sql THEN << >>
                 ELSE <<"sql">>)

\* s is t with some entries left out, in the same order.
RECURSIVE IsSubSeq(_, _)
IsSubSeq(s, t) ==
    IF s = << >> THEN TRUE
    ELSE IF t = << >> THEN FALSE
    ELSE IF Head(s) = Head(t) THEN IsSubSeq(Tail(s), Tail(t))
    ELSE IsSubSeq(s, Tail(t))

\* The artifact and the enumerated sequence of this run are the values
\* that the document alone determines, rendered in declaration order.
ArtifactAndMasksFromDoc ==
    /\ Emitted
        => /\ sql = emit_postgres_sql(doc).art
           /\ [i \in DOMAIN sql.header |-> sql.header[i][1]] = doc.flags
           /\ sql.cats = doc.categories
           /\ sql.cat_sig = [i \in DOMAIN doc.categories |->
                                doc.categories[i].name]
           /\ sql.bit_unions # <<[rule |-> TrueRule, ok |-> TrueFrag]>>
                => IsSubSeq([i \in DOMAIN sql.bit_unions |->
                                sql.bit_unions[i].rule], doc.constraints)
           /\ IsSubSeq([i \in DOMAIN sql.cat_unions |->
                           sql.cat_unions[i].rule], doc.constraints)
    /\ out_file.written => out_file.content = emit_postgres_sql(doc).art
    /\ EnumReturned => valid = enumerate_valid_masks(doc).out
    /\ est.done => est = estimate_sanity(doc, valid)

IsPrefix(s, t) == Len(s) <= Len(t) /\ s = SubSeq(t, 1, Len(s))

Catalogs(n) ==
    {[err |-> FALSE, objs |-> {}],
     [err |-> FALSE,
      objs |-> {[kind |-> "VIEW", name |-> <<"", n, "_decision_space">>,
                 text |-> "older"],
                [kind |-> "FUNCTION", name |-> <<"acbp_popcount", "", "">>,
                 text |-> "helpers"],
                [kind |-> "VIEW", name |-> <<"", "other", "_explain">>,
                 text |-> "explain_view"]}]}

\* C13: applying the emitted artifact to a catalog twice gives the catalog
\* that applying it once gives; no statement fails; every statement is a
\* replace-if-exists definition; no object is defined twice within the
\* artifact; definitions the artifact does not name stay as they were.
C13_Idempotent ==
    Emitted =>
        /\ \A i \in DOMAIN sql.defs : sql.defs[i].replace
        /\ \A i, j \in DOMAIN sql.defs :
              i # j => sql.defs[i].name # sql.defs[j].name
        /\ \A c \in Catalogs(sql.name) :
              LET once  == apply_artifact(c, sql)
                  twice == apply_artifact(once, sql)
                  named == {sql.defs[i].name : i \in DOMAIN sql.defs}
              IN  /\ ~once.err
                  /\ twice = once
                  /\ {o \in once.objs : o.name \notin named}
                       = {o \in c.objs : o.name \notin named}
                  /\ {[kind |-> o.kind, name |-> o.name] : o \in once.objs}
                       = {[kind |-> o.kind, name |-> o.name] : o \in c.objs}
                         \cup {[kind |-> sql.defs[i].kind,
                                name |-> sql.defs[i].name] :
                                    i \in DOMAIN sql.defs}
                  /\ Cardinality({o \in once.objs : o.name \in named})
                       = Len(sql.defs)

\* C13 witness: an artifact with category-aware definitions (nine
\* statements) was emitted; applied to the catalog that holds an older
\* decision-space view, it replaces that view.
C13_Witness ==
    /\ Emitted
    /\ sql.have_cat_rules
    /\ Len(sql.defs) = 9
    /\ \E c \in Catalogs(sql.name) :
          /\ \E o \in c.objs : o.text = "older"
          /\ \A o \in apply_artifact(c, sql).objs : o.text # "older"

\* The bounds of one result of estimate_sanity.
EstimateInBounds(e) ==
    /\ 0 <= e.est_remaining
    /\ e.est_remaining <= e.theoretical_max
    /\ e.est_pruned = e.theoretical_max - e.est_remaining
    /\ e.est_pruned >= 0
    /\ e.est_remaining + e.est_pruned = e.theoretical_max

\* A few lists of masks of the model, enumerated or not.
MaskLists(m) ==
    LET top == 2 ^ Len(m.flags) - 1
    IN  {<< >>, <<0>>, <<top>>, <<0, top>>, <<top, top, 0>>}

RECURSIVE CardProduct(_)
CardProduct(cats) ==
    IF cats = << >> THEN 1
    ELSE Cardinality(Range(Head(cats).vals)) * CardProduct(Tail(cats))

\* C15: theoretical_max is the number of valid masks times the product of
\* the cardinalities of the declared categories (1 without categories),
\* a category of zero values included.
C15_TheoreticalMax ==
    est.done => est.theoretical_max = Len(valid) * CardProduct(model.categories)

\* Number of valid masks with the bit of f set, over their number.
SpecPrevalence(m, vm, f) ==
    Frac(Cardinality({i \in DOMAIN vm : f \in FlagsOfMask(vm[i], m.flags)}),
         Len(vm))

\* The values the category col declares.
DeclaredValues(m, col) ==
    UNION {Range(m.categories[i].vals) :
              i \in {j \in DOMAIN m.categories : m.categories[j].name = col}}

\* Product over the categories a `when` names of acceptable / declared.
RECURSIVE SpecConditionFraction(_, _)
SpecConditionFraction(m, when) ==
    IF when = << >> THEN Frac(1, 1)
    ELSE FracMul(Frac(Cardinality(Range(Head(when).vals)),
                      Cardinality(DeclaredValues(m, Head(when).k))),
                 SpecConditionFraction(m, Tail(when)))

\* Product of (1 - pruned_fraction) over the FORBID_WHEN rules.
RECURSIVE SpecKeep(_, _, _)
SpecKeep(m, vm, cons) ==
    IF cons = << >> THEN Frac(1, 1)
    ELSE IF ~TypeIs(Head(cons), "FORBID_WHEN") THEN SpecKeep(m, vm, Tail(cons))
    ELSE LET f == FracMul(SpecPrevalence(m, vm, Head(cons).if_flag),
                          SpecConditionFraction(m, Head(cons).when))
             clamped == FracMax(Frac(0, 1), FracMin(Frac(1, 1), f))
         IN  FracMul(Frac(clamped.d - clamped.n, clamped.d),
                     SpecKeep(m, vm, Tail(cons)))

\* Every FORBID_WHEN names a declared flag and, in `when`, declared
\* categories with declared values, none twice.
WhenRefsDeclared(m) ==
    \A i \in DOMAIN m.constraints :
        LET c == m.constraints[i]
        IN  TypeIs(c, "FORBID_WHEN")
            => /\ c.if_flag \in Range(m.flags)
               /\ \A j \in DOMAIN c.when :
                     /\ c.when[j].k \in CatNames(m)
                     /\ Range(c.when[j].vals)
                          \subseteq DeclaredValues(m, c.when[j].k)
                     /\ Cardinality(Range(c.when[j].vals))
                          = Len(c.when[j].vals)

WithoutForbidIfSql(m) ==
    LET Kept(c) == ~TypeIs(c, "FORBID_IF_SQL")
    IN  [m EXCEPT !.constraints = SelectSeq(m.constraints, Kept)]

\* The numbers and the prevalence line of a result.
EstimateNumbers(e) ==
    <<e.theoretical_max, e.est_remaining, e.est_pruned, e.prev>>

\* C17: the estimate of a model equals the estimate of the model without
\* its FORBID_IF_SQL constraints, and of the model with more of them, in
\* theoretical_max, est_remaining, est_pruned and prevalence; the notes
\* give the number k of such rules when k >= 1 and nothing of them when
\* k = 0.
C17_ForbidIfSqlExcluded ==
    est.done =>
        LET m0 == WithoutForbidIfSql(model)
            more == [model EXCEPT !.constraints =
                        <<ForbidIfSql("a", "TRUE")>> \o @
                        \o <<ForbidIfSql("a", "site <> 'Main'")>>]
            k == Cardinality({i \in DOMAIN model.constraints :
                     TypeIs(model.constraints[i], "FORBID_IF_SQL")})
        IN  /\ enumerate_valid_masks(m0).out = valid
            /\ enumerate_valid_masks(more).out = valid
            /\ EstimateNumbers(estimate_sanity(m0, valid))
                 = EstimateNumbers(est)
            /\ EstimateNumbers(estimate_sanity(more, valid))
                 = EstimateNumbers(est)
            /\ est.fisql_note = k
            /\ estimate_sanity(m0, valid).fisql_note = 0
            /\ estimate_sanity(more, valid).fisql_note = k + 2

\* C17 witness: an estimate of a model with a FORBID_IF_SQL rule next to a
\* FORBID_WHEN rule that prunes.
C17_Witness ==
    /\ est.done
    /\ est.fisql_note = 1
    /\ est.est_pruned > 0
    /\ \E i \in DOMAIN model.constraints :
          TypeIs(model.constraints[i], "FORBID_WHEN")

\* C18: with --enumerate, 'Enumeration skipped' is printed iff
\* len(flags) > enumeration_limit_bits (22 when absent); when B <= limit
\* the count of enumerated valid masks is printed, also when it is 0.
C18_SkippedIffOverLimit ==
    LET B == Len(model.flags)
        limit == IF model.has_limit THEN model.enumeration_limit_bits ELSE 22
    IN  EnumReturned
        => /\ (\E i \in DOMAIN stdout : stdout[i] = "skipped") <=> B > limit
           /\ B <= limit => \E i \in DOMAIN stdout : stdout[i] = "valid_masks"

\* The rules of the rows of an explainer, in order.
RulesOf(rows) == [i \in DOMAIN rows |-> rows[i].rule]

\* The bit-only constraints of a model, in declaration order.
BitOnlyConstraints(m) ==
    LET IsBit(c) == TypeIs(c, "IMPLIES") \/ TypeIs(c, "EQUIV")
                    \/ TypeIs(c, "MUTEX") \/ TypeIs(c, "ONEOF")
    IN  SelectSeq(m.constraints, IsBit)

\* C19: the bit-only explainer gives one row per bit-only constraint and
\* the category-aware explainer one row per constraint, in the order of
\* declaration, also with bit-only and category-aware constraints
\* interleaved and with no bit-only constraint.
C19_ExplainInOrder ==
    (Emitted /\ CatRefsDeclared(model)
        /\ \A i \in DOMAIN model.constraints : ~UnknownType(model.constraints[i]))
    => \A m \in 0..sql.max_mask :
          /\ RulesOf(acbp_explain_rules(sql, m)) = BitOnlyConstraints(model)
          /\ sql.have_cat_rules
               => \A a \in SpecAssignments(model) :
                     RulesOf(acbp_explain(sql, m, a)) = model.constraints

\* No step changes the model once loaded, or a result once produced.
ResultsImmutable ==
    /\ pc # "start" => model' = model
    /\ ReducePassed => (B_eff' = B_eff /\ n_eff' = n_eff)
    /\ EnumReturned => (valid' = valid /\ evals' = evals)
    /\ est.done => est' = est
    /\ Emitted => sql' = sql

\* C20: the stages run in the order Loader, Reducer, Constraint Compiler,
\* Enumerator, Estimator, Emitter, each after the full result of the one
\* before: the reduction has the loaded model, the compiled predicates
\* (built by emit_postgres_sql) exist once the reduction is reported and
\* before the enumerator returns, the estimate follows the enumeration,
\* and the artifact goes out after the estimate; no stage changes the
\* model or an earlier result.
C20_StageOrder ==
    /\ [](/\ ReducePassed => model = doc
          /\ Emitted => ReducePassed
          /\ EnumReturned => Emitted
          /\ est.done => EnumReturned
          /\ ((out_file.written \/ SqlPrinted) /\ args.enumerate
                /\ valid # << >>) => est.done)
    /\ [][ResultsImmutable]_vars

\* C21: in every run whose model loads and compiles (emit_postgres_sql
\* raises nothing on it), the run ends with the artifact emitted, and the
\* artifact is the one the document gives: whether enumeration was not
\* requested, was skipped, returned no mask or was followed by an estimate,
\* and whatever the historical record holds.
C21_EstimatorAdvisory ==
    (Ended /\ ~emit_postgres_sql(doc).err)
        => /\ pc = "done"
           /\ sql = emit_postgres_sql(doc).art
           /\ IF args.out_sql
              THEN out_file.written /\ out_file.content = sql
              ELSE SqlPrinted

WithoutCategoryRules(m) ==
    LET BitPath(c) == Upper(c.type) \notin {"FORBID_WHEN", "FORBID_IF_SQL"}
    IN  [m EXCEPT !.constraints = SelectSeq(m.constraints, BitPath)]

\* C23: the FORBID_WHEN and FORBID_IF_SQL constraints of a model leave the
\* bit-only path as it is without them: B_eff, the result of
\* enumerate_valid_masks (and the number of masks evaluated), the emitted
\* bit-only validator predicate and the bit-only explainer rows.
C23_CategoryRulesOffBitPath ==
    LET bare == WithoutCategoryRules(model)
        e == emit_postgres_sql(bare)
    IN  /\ ReducePassed
            => B_eff = compute_B_eff(bare.flags, bare.constraints)
        /\ EnumReturned
            => /\ valid = enumerate_valid_masks(bare).out
               /\ evals = enumerate_valid_masks(bare).evals
        /\ Emitted
            => /\ ~e.err
               /\ sql.bit_pred_unq = e.art.bit_pred_unq
               /\ sql.bit_unions = e.art.bit_unions
               /\ \A m \in 0..(2 ^ Len(model.flags) - 1) :
                     /\ acbp_is_valid(sql, m) = acbp_is_valid(e.art, m)
                     /\ acbp_explain_rules(sql, m)
                          = acbp_explain_rules(e.art, m)

\* C23 witness: a finished run on a model with a bit-only constraint that
\* prunes masks and a FORBID_WHEN constraint on a declared flag, enumerated
\* and emitted.
C23_Witness ==
    /\ pc = "done"
    /\ EnumReturned
    /\ Emitted
    /\ WithoutCategoryRules(model) # model
    /\ WithoutCategoryRules(model).constraints # << >>
    /\ \E i \in DOMAIN model.constraints :
          /\ TypeIs(model.constraints[i], "FORBID_WHEN")
          /\ model.constraints[i].if_flag \in Range(model.flags)
          /\ model.constraints[i].when # << >>
    /\ valid # << >>
    /\ Len(valid) < 2 ^ Len(model.flags)

\* Some row of an explainer result has ok = v.
SomeRow(rows, v) == \E i \in DOMAIN rows : rows[i].ok = v

C25_SqlMatchesEnumerator ==
    (Emitted /\ EnumReturned /\ Len(model.flags) <= limit_bits(model))
        => \A m \in 0..(2 ^ Len(model.flags) - 1) :
              (acbp_is_valid(sql, m) = "T") <=> (m \in Range(valid))

\* The masks that satisfy every bit-only constraint and keep at least one
\* assignment of declared category values that no category-aware rule
\* forbids.
SpecKeptMasks(m) ==
    {x \in SpecValidMasks(m) :
        \E asg \in SpecAssignments(m) :
            \A i \in DOMAIN m.constraints :
                /\ ForbidWhenHolds(m.constraints[i],
                                   FlagsOfMask(x, m.flags), asg)
                /\ ForbidIfSqlHolds(m.constraints[i],
                                    FlagsOfMask(x, m.flags), asg)}

C27_ReductionConsistent ==
    LET flags == model.flags
        pos == bitpos_map(flags)
        classes == scc_equivalence(flags, model.constraints).comps
    IN  (EnumReturned /\ Len(flags) <= limit_bits(model))
        => /\ \A k \in DOMAIN classes :
                 \A f \in classes[k], g \in classes[k] :
                    \A i \in DOMAIN valid :
                       bit(valid[i], pos[f]) = bit(valid[i], pos[g])
           /\ B_eff = Len(classes)
           /\ Len(valid) <= 2 ^ B_eff
           /\ evals = 2 ^ Len(flags)

\* C27 witness: an enumeration over flags of which two are in one class:
\* B_eff < B, all 2^B masks evaluated, exactly 2^B_eff of them returned.
C27_Witness ==
    /\ EnumReturned
    /\ Len(model.flags) >= 2
    /\ B_eff < Len(model.flags)
    /\ evals = 2 ^ Len(model.flags)
    /\ Len(valid) = 2 ^ B_eff

\* A model of one FORBID_WHEN rule: no FORBID_IF_SQL rule, exactly one
\* FORBID_WHEN rule, its `when` naming declared categories, each once, with
\* distinct declared values.
OneForbidWhen(m) ==
    LET cons == m.constraints
        fw == {i \in DOMAIN cons : TypeIs(cons[i], "FORBID_WHEN")}
    IN  /\ \A i \in DOMAIN cons : ~TypeIs(cons[i], "FORBID_IF_SQL")
        /\ Cardinality(fw) = 1
        /\ \A i \in fw :
              /\ \A j \in DOMAIN cons[i].when :
                    /\ cons[i].when[j].k \in CatNames(m)
                    /\ Range(cons[i].when[j].vals)
                         \subseteq DeclaredValues(m, cons[i].when[j].k)
                    /\ Cardinality(Range(cons[i].when[j].vals))
                         = Len(cons[i].when[j].vals)
              /\ \A j, k \in DOMAIN cons[i].when :
                    cons[i].when[j].k = cons[i].when[k].k => j = k

\* The rows of the decision space: a mask of the enumerated list with an
\* assignment of declared values that no FORBID_WHEN rule forbids.
SpecRows(m, vm) ==
    {x \in Range(vm) \X SpecAssignments(m) :
        \A i \in DOMAIN m.constraints :
            ForbidWhenHolds(m.constraints[i], FlagsOfMask(x[1], m.flags), x[2])}

\* C28: with a non-empty valid-mask list, no FORBID_IF_SQL rule and exactly
\* one FORBID_WHEN rule over declared categories with distinct declared
\* values, est_remaining is the exact number of rows of the decision space:
\* the pairs of a bit-valid mask and a category assignment the rule does
\* not forbid.
C28_EstimateExact ==
    (est.done /\ valid # << >> /\ OneForbidWhen(model))
        => est.est_remaining = Cardinality(SpecRows(model, valid))

\* C28 where it fails: one flag, a category `site` without values and the
\* rule FORBID_WHEN(a, {}); no assignment exists, so the decision space has
\* no row, and est_remaining is 1.
C28_EmptyCategory ==
    /\ est.done
    /\ model.flags = <<"a">>
    /\ model.categories = CatsEmpty
    /\ model.constraints = <<ForbidWhen("a", << >>)>>
    /\ valid = <<0, 1>>
    /\ SpecRows(model, valid) = {}
    /\ est.est_remaining = 1

\* C28 on categories that each declare a value: the estimate is exact.
C28_ExactOnDeclaredValues ==
    (est.done /\ valid # << >> /\ OneForbidWhen(model)
       /\ cats_cte_typed(model.categories))
        => est.est_remaining = Cardinality(SpecRows(model, valid))

\* Both calls of generate have written their files.
BothWritten == \A c \in DOMAIN calls : calls[c].written

\* Call c wrote the first n_rows // 2 rows to part 1 and the rest to part
\* 2, in generation order.
SplitInOrder(c) ==
    LET rows == calls[c].rows
        mid == call.n_rows \div 2
    IN  /\ Len(rows) = call.n_rows
        /\ calls[c].part1 = SubSeq(rows, 1, mid)
        /\ calls[c].part2 = SubSeq(rows, mid + 1, call.n_rows)

\* C29: generate is a function of its arguments: two calls with the same
\* model name, n_rows and seed produce identical row sequences, every draw
\* of the samplers coming from the Random instance seeded with seed, and
\* each call puts the first n_rows // 2 rows in part 1 and the rest in
\* part 2, in generation order.
C29_GenerateIsFunction ==
    BothWritten
        => /\ calls[1].rows = calls[2].rows
           /\ calls[1].part1 = calls[2].part1
           /\ calls[1].part2 = calls[2].part2
           /\ \A c \in DOMAIN calls : SplitInOrder(c)

\* C29 where it fails: src/make_data.py, inpatient_admission, one row; the
\* two calls differ in a category column and agree on the demographics,
\* which generate draws from rng.
C29_InpatientDiffers ==
    /\ BothWritten
    /\ call.file = "src/make_data.py"
    /\ call.model = "inpatient_admission"
    /\ call.n_rows = 1
    /\ calls[1].rows[1].ward # calls[2].rows[1].ward
    /\ calls[1].rows[1].sex = calls[2].rows[1].sex
    /\ calls[1].rows[1].city = calls[2].rows[1].city

\* C29 on the samplers that draw from rng: sample_clinic_row, and
\* sample_inpatient_row of src/acbp/make_data.py.
C29_FunctionWhenDrawnFromRng ==
    (BothWritten /\ DrawsFromRng(call.file, call.model))
        => /\ calls[1].rows = calls[2].rows
           /\ calls[1].part1 = calls[2].part1
           /\ calls[1].part2 = calls[2].part2

\* The split alone, in both files and for both models.
C29_Split ==
    \A c \in DOMAIN calls : calls[c].written => SplitInOrder(c)

\* The flags of the model named.
FlagsOf(name) ==
    IF name = "clinic_visit" THEN CLINIC_FLAGS ELSE INPATIENT_FLAGS

\* Bit i of mask m (from 0).
MaskBit(m, i) == (m \div (2 ^ i)) % 2

\* Row i of call c has a declared value in every category column.
RowDeclared(c, i) ==
    LET cats == CatsOf(call.model)
    IN  \A col \in DOMAIN cats : calls[c].rows[i][col] \in Range(cats[col])

\* The mask of row i of call c is pack_mask of the sampler's bits: within
\* [0, 2^len(flags) - 1], bit j set iff the flag at index j is set.
RowMaskPacked(c, i) ==
    LET flags == FlagsOf(call.model)
        r == calls[c].rows[i]
        b == calls[c].bits[i]
    IN  /\ r.mask = pack_mask(b, flags)
        /\ r.mask \in 0..(2 ^ Len(flags) - 1)
        /\ \A j \in DOMAIN flags :
              MaskBit(r.mask, j - 1) = 1 <=> b[flags[j]] # 0

\* C30: every row of sample_clinic_row and of sample_inpatient_row, after
\* its adjustment steps, has in each category column a value declared for
\* that category in CLINIC_CATS / INPATIENT_CATS, and a mask equal to
\* pack_mask of its bits: within [0, 2^len(flags) - 1], bit i set iff the
\* flag at index i is set.
C30_RowsDeclaredAndPacked ==
    \A c \in DOMAIN calls :
        \A i \in DOMAIN calls[c].rows :
            RowDeclared(c, i) /\ RowMaskPacked(c, i)

\* C30 where it fails: the row sample_inpatient_row of
\* src/acbp/make_data.py makes when every draw is 0 has ward Medical and
\* admit_hour 00:00, which INPATIENT_CATS does not declare.
C30_UndeclaredWard ==
    /\ call.file = "src/acbp/make_data.py"
    /\ call.model = "inpatient_admission"
    /\ Len(calls[1].rows) >= 1
    /\ calls[1].rows[1].ward = "Medical"
    /\ calls[1].rows[1].admit_hour = "00:00"
    /\ "Medical" \notin Range(INPATIENT_CATS.ward)
    /\ "00:00" \notin Range(INPATIENT_CATS.admit_hour)

\* C30 on sample_clinic_row and on sample_inpatient_row of
\* src/make_data.py: every category value is declared.
C30_DeclaredElsewhere ==
    (call.model = "clinic_visit" \/ call.file = "src/make_data.py")
        => \A c \in DOMAIN calls :
              \A i \in DOMAIN calls[c].rows : RowDeclared(c, i)

\* The mask half of C30, in both files and for both models.
C30_MaskPacked ==
    \A c \in DOMAIN calls :
        \A i \in DOMAIN calls[c].rows : RowMaskPacked(c, i)
====
